---- MODULE Spec2Model ----
(***************************************************************************)
(* A model of the secure transport of the document management system:      *)
(* the RSA block codec (server/app/rsa_block.py), the length-prefixed      *)
(* framing (server/app/protocol.py, client/app/secure_protocol.py) and the *)
(* per-connection handshake of the two listeners (server/app/main.py) and  *)
(* of the client (client/app/socket_client.py).                            *)
(*                                                                         *)
(* Byte strings are sequences over 0 .. ByteBase-1.  The program's bytes   *)
(* have 256 values; the model keeps every rule of the code that is stated  *)
(* in bytes (a 2-byte length field, a 4-byte frame prefix, a modulus of k  *)
(* bytes, plain_block = k - 1 >= 8) and shrinks only the number of values  *)
(* one byte takes, so that moduli of nine and ten bytes fit the checker's  *)
(* integers.                                                               *)
(***************************************************************************)
EXTENDS Integers, Sequences, FiniteSets, TLC

\* One call of the codec: encrypt_bytes, then decrypt_bytes on its output.
VARIABLES
    cpc,      \* "off", "start", "encrypted", "failed", "decrypted"
    ckey,     \* the key pair in use
    cmode,    \* the mode label (RSA_MODE is a free-form string)
    cdata,    \* the plaintext
    cenc,     \* what encrypt_bytes returned
    cdec      \* what decrypt_bytes returned

codecVars == <<cpc, ckey, cmode, cdata, cenc, cdec>>

\* One direction of one connection, byte by byte: a sender that calls
\* send_msg / send_encrypted / send_encrypted_bin and a receiver that calls
\* recv_msg / recv_encrypted / recv_encrypted_bin.
VARIABLES
    fpc,      \* "off" or "on"
    fmode,    \* the mode both ends were started with
    fkey,     \* the receiver's key pair; the sender encrypts under its pub
    stream,   \* every byte the sender has handed to sendall, in order
    sends,    \* per send call: its kind, whether and what it raised, the
              \* payload of the frame it sent
    eof,      \* the sending peer has closed or died: what the receiver has
              \* not yet taken may be lost, and conn.recv may return b""
    rpc,      \* receiver: "idle", "header", "payload", "failed"
    rpos,     \* bytes the receiver has taken from the connection
    rstart,   \* rpos when the current recv_* call began
    rneed,    \* n of the recv_exact call in progress
    rdata,    \* data of the recv_exact call in progress
    rres      \* what the finished recv_* calls returned

frameVars == <<fpc, fmode, fkey, stream, sends, eof, rpc, rpos, rstart, rneed,
               rdata, rres>>

\* The server process with its two listeners (serve on PORT, serve_upload on
\* UPLOAD_PORT) and the peers that connect to them, frame by frame.
VARIABLES
    CRYPTO,      \* the server's CryptoCtx (main.py line 40)
    spc,         \* per listener: "off", or where its loop blocks: "accept",
                 \* "recv_hello", "recv_req"
    client_pub,  \* per listener: the local client_pub (<<>> is None)
    conn,        \* per listener: the connection it accepted last
    nconn        \* per listener: connections accepted so far

protoVars == <<CRYPTO, spc, client_pub, conn, nconn>>

\* One call of one of the other pure functions of the program.
VARIABLES
    fn,    \* "off", the function about to be called, or "returned"
    arg,   \* its arguments (and, in generate_keypair, its locals)
    ret    \* what it returned or raised

callVars == <<fn, arg, ret>>

\* The requests the two listeners handle once a request is decrypted:
\* handle(req) on PORT, the body of serve_upload on UPLOAD_PORT.
VARIABLES
    MAINTENANCE,  \* the global of main.py line 39
    hpc,          \* per listener: where the handling of its request stands
    hreq,         \* per listener: the request (or header) being handled
    hloc,         \* per listener: locals (created_paths, the row inserted)
    hresp,        \* per listener: the response of the request handled last
    db,           \* the rows of the database
    files,        \* the paths that exist in storage/files_fs
    audit,        \* how many entries audit_log has written
    nreq          \* requests received so far

appVars == <<MAINTENANCE, hpc, hreq, hloc, hresp, db, files, audit, nreq>>

\* ------------------------------------------------------------- bounds
\* Values one byte can take (256 in the program).
ByteBase == 4
\* Longest plaintext handed to the codec.
MaxLen == 7
\* Send calls, and recv calls, on the connection of the framing specification.
MaxFrames == 2
\* Blocks of the longest plaintext that is encrypted twice.
MaxBlocks == 3
\* Passes of the loop of generate_keypair.
MaxTries == 3
\* Greatest argument of the calls of egcd and modinv.
MaxArg == 12
\* Longest binary payload packed with a header, and longest file buffer.
MaxBin == 3
\* Most files of one upload, and the longest of them.
MaxFiles == 3
MaxFileLen == 2

\* ---------------------------------------------------- program constants
\* rsa_block.py:73  generate_keypair(bits, e=65537)
PublicExponent == 65537
\* rsa_block.py:108  if plain_block < 8: raise
MinPlainBlock == 8

Modes == {"raw_fixed", "raw_len", "rand_fixed", "rand_len"}

Byte == 0 .. (ByteBase - 1)

\* ------------------------------------------------------- number theory

\* a * b mod n without leaving the checker's 32-bit integers (Python's
\* integers are unbounded; the product is split in 7-bit limbs of b).
RECURSIVE MulMod(_, _, _)
MulMod(a, b, n) ==
    IF b < 128 THEN (a * b) % n
    ELSE (MulMod(a, b \div 128, n) * 128 + a * (b % 128)) % n

\* pow(b, x, n)
RECURSIVE ModExp(_, _, _)
ModExp(b, x, n) ==
    IF x = 0 THEN 1 % n
    ELSE LET h == ModExp(b, x \div 2, n)
             s == MulMod(h, h, n)
         IN  IF x % 2 = 1 THEN MulMod(s, b % n, n) ELSE s

\* egcd returning its coefficients in the order the recursive call gave.
RECURSIVE egcd_unswapped(_, _)
egcd_unswapped(a, b) ==
    IF b = 0 THEN <<a, 1, 0>>
    ELSE LET r == egcd_unswapped(b, a % b)
         IN  <<r[1], r[2], r[3] - (a \div b) * r[2]>>

RECURSIVE egcd(_, _)
egcd(a, b) ==
    IF b = 0 THEN <<a, 1, 0>>
    ELSE LET r == egcd(b, a % b)
         IN  <<r[1], r[3], r[2] - (a \div b) * r[3]>>

\* modinv returning x as egcd gave it, not x % m.
modinv_unreduced(a, m) ==
    LET r == egcd(a, m)
    IN  IF r[1] # 1 THEN [ok |-> FALSE, err |-> "No modular inverse"]
        ELSE [ok |-> TRUE, val |-> r[2]]

\* modinv raises ValueError("No modular inverse") when g # 1.
modinv(a, m) ==
    LET r == egcd(a, m)
    IN  IF r[1] # 1 THEN [ok |-> FALSE, err |-> "No modular inverse"]
        ELSE [ok |-> TRUE, val |-> r[2] % m]

\* ----------------------------------------------------------- RSA keys

PublicKey(n, e) == [n |-> n, e |-> e]
PrivateKey(n, d) == [n |-> n, d |-> d]

\* The pair generate_keypair returns for the primes p, q it drew
\* (lines 80-85; the drawing of the primes is not modelled here).
KeyPairOf(p, q, e) ==
    LET n   == p * q
        phi == (p - 1) * (q - 1)
    IN  [pub |-> PublicKey(n, e), priv |-> PrivateKey(n, modinv(e, phi).val)]

\* Prime pairs the model draws keys from: moduli of 8, 9 and 10 bytes when
\* a byte has 4 values (64507, 67591, 404473).
PrimePairs == {<<251, 257>>, <<257, 263>>, <<601, 673>>}

KeyPairs == {KeyPairOf(pq[1], pq[2], PublicExponent) : pq \in PrimePairs}

\* rsa_encrypt_int: raises "m out of range" unless 0 <= m < n.
rsa_encrypt_int(m, pub) ==
    IF m < 0 \/ m >= pub.n THEN [ok |-> FALSE, err |-> "m out of range"]
    ELSE [ok |-> TRUE, val |-> ModExp(m, pub.e, pub.n)]

\* rsa_decrypt_int: raises "c out of range" unless 0 <= c < n.
rsa_decrypt_int(c, priv) ==
    IF c < 0 \/ c >= priv.n THEN [ok |-> FALSE, err |-> "c out of range"]
    ELSE [ok |-> TRUE, val |-> ModExp(c, priv.d, priv.n)]

\* ------------------------------------------------------ bytes <-> int

RECURSIVE Pow(_, _)
Pow(b, x) == IF x = 0 THEN 1 ELSE b * Pow(b, x - 1)

\* int.from_bytes(s, "big")
RECURSIVE from_bytes(_)
from_bytes(s) ==
    IF s = <<>> THEN 0
    ELSE from_bytes(SubSeq(s, 1, Len(s) - 1)) * ByteBase + s[Len(s)]

\* v.to_bytes(len, "big") raises OverflowError when v needs more bytes.
Fits(v, len) == v >= 0 /\ v < Pow(ByteBase, len)

RECURSIVE to_bytes(_, _)
to_bytes(v, len) ==
    IF len = 0 THEN <<>>
    ELSE Append(to_bytes(v \div ByteBase, len - 1), v % ByteBase)

\* (n.bit_length() + 7) // 8: the number of bytes n needs.
RECURSIVE _mod_bytes(_)
_mod_bytes(n) == IF n = 0 THEN 0 ELSE 1 + _mod_bytes(n \div ByteBase)

Zeros(len) == [i \in 1 .. len |-> 0]

\* data[i : i + len] for a 0-based i (Python clips the slice to the data).
Slice(data, i, len) ==
    SubSeq(data, i + 1, IF i + len > Len(data) THEN Len(data) ELSE i + len)

\* ---------------------------------------------------------- the codec

Err(msg) == [ok |-> FALSE, err |-> msg]

IsRaw(mode) == mode \in {"raw_fixed", "raw_len"}
\* rand = True in the branch of the raw modes as well.
IsRand_always(mode) == TRUE

IsRand(mode) == mode \in {"rand_fixed", "rand_len"}
IsFixed(mode) == mode \in {"raw_fixed", "rand_fixed"}

\* payload_cap that keeps a byte for the nonce in the raw modes too.
payload_cap_always_nonce(plain_block, mode) == plain_block - 3

\* payload_cap of encrypt_bytes (lines 111-118) and cap of decrypt_bytes
\* (lines 188-194).
payload_cap(plain_block, mode) ==
    IF IsRaw(mode) THEN plain_block - 2 ELSE plain_block - 3

\* Iterations of the loop "while i < len(data)" that starts at offset i
\* (lines 124-126): one chunk of at most cap bytes each.
RECURSIVE NumChunks(_, _, _)
NumChunks(len, i, cap) ==
    IF ~(i < len) THEN 0
    ELSE 1 + NumChunks(len, i + (IF len - i < cap THEN len - i ELSE cap), cap)

\* The plaintext block with a zero byte where the nonce belongs.
PlainBlock_zero_nonce(chunk, r, plain_block, mode) ==
    LET L     == Len(chunk)
        block == IF IsRand(mode) THEN to_bytes(L, 2) \o <<0>> \o chunk
                 ELSE to_bytes(L, 2) \o chunk
    IN  IF Len(block) < plain_block
        THEN block \o Zeros(plain_block - Len(block))
        ELSE block

\* The plaintext block padded to the width of the modulus, k bytes.
PlainBlock_full_width(chunk, r, plain_block, mode) ==
    LET L     == Len(chunk)
        block == IF IsRand(mode) THEN to_bytes(L, 2) \o <<r>> \o chunk
                 ELSE to_bytes(L, 2) \o chunk
    IN  IF Len(block) < plain_block + 1
        THEN block \o Zeros(plain_block + 1 - Len(block))
        ELSE block

\* The plaintext block of one chunk (lines 128-140); r is the nonce drawn
\* in the randomized modes.
PlainBlock(chunk, r, plain_block, mode) ==
    LET L     == Len(chunk)
        block == IF IsRand(mode) THEN to_bytes(L, 2) \o <<r>> \o chunk
                 ELSE to_bytes(L, 2) \o chunk
    IN  IF Len(block) < plain_block
        THEN block \o Zeros(plain_block - Len(block))
        ELSE block

\* The loop body (lines 125-149) from offset i on; block j takes nonces[j].
\* ok, out (the cipher bytes), nblocks, plains (the plaintext blocks).
RECURSIVE EncLoop(_, _, _, _, _, _)
EncLoop(data, i, j, pub, mode, nonces) ==
    LET k           == _mod_bytes(pub.n)
        plain_block == k - 1
        cap         == payload_cap(plain_block, mode)
    IN  IF ~(i < Len(data))
        THEN [ok |-> TRUE, out |-> <<>>, nblocks |-> 0, plains |-> <<>>]
        ELSE
          LET chunk == Slice(data, i, cap)
              L     == Len(chunk)
          IN  IF L > cap THEN Err("internal chunk overflow")
              ELSE IF ~Fits(L, 2) THEN Err("OverflowError")
              ELSE
                LET block == PlainBlock(chunk, IF IsRand(mode) THEN nonces[j] ELSE 0,
                                        plain_block, mode)
                    m     == from_bytes(block)
                    c     == rsa_encrypt_int(m, pub)
                IN  IF ~c.ok THEN c
                    ELSE IF ~Fits(c.val, k) THEN Err("OverflowError")
                    ELSE
                      LET cbytes == to_bytes(c.val, k)
                          framed == IF IsFixed(mode) THEN cbytes
                                    ELSE to_bytes(Len(cbytes), 2) \o cbytes
                          rest   == EncLoop(data, i + L, j + 1, pub, mode, nonces)
                      IN  IF ~Fits(Len(cbytes), 2) /\ ~IsFixed(mode)
                          THEN Err("OverflowError")
                          ELSE IF ~rest.ok THEN rest
                          ELSE [ok      |-> TRUE,
                                out     |-> framed \o rest.out,
                                nblocks |-> 1 + rest.nblocks,
                                plains  |-> <<block>> \o rest.plains]

\* encrypt_bytes as a loop that runs its body before testing i < len(data):
\* the empty string then yields one block with a zero length field.
encrypt_bytes_do_while(data, pub, mode, nonces) ==
    LET plain_block == _mod_bytes(pub.n) - 1
    IN  IF plain_block < MinPlainBlock THEN Err("RSA modulus too small")
        ELSE IF ~(IsRaw(mode) \/ IsRand(mode)) THEN Err("bad mode")
        ELSE IF data = <<>>
        THEN LET block  == PlainBlock(<<>>, 1, plain_block, mode)
                 cbytes == to_bytes(rsa_encrypt_int(from_bytes(block), pub).val,
                                    plain_block + 1)
             IN  [ok      |-> TRUE,
                  out     |-> IF IsFixed(mode) THEN cbytes
                              ELSE to_bytes(Len(cbytes), 2) \o cbytes,
                  nblocks |-> 1,
                  plains  |-> <<block>>]
        ELSE EncLoop(data, 0, 1, pub, mode, nonces)

\* encrypt_bytes(data, pub, mode); nonces are the values secrets.randbelow
\* returns (plus one), in the order they are drawn.
encrypt_bytes(data, pub, mode, nonces) ==
    LET plain_block == _mod_bytes(pub.n) - 1
    IN  IF plain_block < MinPlainBlock THEN Err("RSA modulus too small")
        ELSE IF ~(IsRaw(mode) \/ IsRand(mode)) THEN Err("bad mode")
        ELSE EncLoop(data, 0, 1, pub, mode, nonces)

\* The blocks of a fixed-mode buffer (lines 158-160).
RECURSIVE SplitFixed(_, _)
SplitFixed(data, k) ==
    IF data = <<>> THEN <<>>
    ELSE <<SubSeq(data, 1, k)>> \o SplitFixed(SubSeq(data, k + 1, Len(data)), k)

\* The blocks of a length-prefixed buffer (lines 162-172), from pos on.
RECURSIVE SplitLen(_, _)
SplitLen(data, pos) ==
    IF ~(pos < Len(data)) THEN [ok |-> TRUE, blocks |-> <<>>]
    ELSE IF pos + 2 > Len(data) THEN Err("bad cipher format")
    ELSE LET blen == from_bytes(Slice(data, pos, 2))
         IN  IF pos + 2 + blen > Len(data) THEN Err("bad cipher format")
             ELSE LET rest == SplitLen(data, pos + 2 + blen)
                  IN  IF ~rest.ok THEN rest
                      ELSE [ok |-> TRUE,
                            blocks |-> <<Slice(data, pos + 2, blen)>> \o rest.blocks]

\* DecLoop with the bug the code's comment warns of: the decrypted integer
\* is turned into as few bytes as it needs, so leading zero bytes are lost.
RECURSIVE DecLoop_minimal_bytes(_, _, _)
DecLoop_minimal_bytes(blocks, priv, mode) ==
    IF blocks = <<>> THEN [ok |-> TRUE, out |-> <<>>]
    ELSE
      LET plain_block == _mod_bytes(priv.n) - 1
          c == from_bytes(Head(blocks))
          m == rsa_decrypt_int(c, priv)
      IN  IF ~m.ok THEN m
          ELSE
            LET p     == to_bytes(m.val, _mod_bytes(m.val))
                L     == from_bytes(Slice(p, 0, 2))
                start == IF IsRand(mode) THEN 3 ELSE 2
                cap   == payload_cap(plain_block, mode)
            IN  IF L < 0 \/ L > cap THEN Err("bad plaintext length")
                ELSE LET rest == DecLoop_minimal_bytes(Tail(blocks), priv, mode)
                     IN  IF ~rest.ok THEN rest
                         ELSE [ok |-> TRUE, out |-> Slice(p, start, L) \o rest.out]

\* DecLoop without the test of the length field (lines 196-197): the slice
\* p[start:start + L] clips.
RECURSIVE DecLoop_no_length_test(_, _, _)
DecLoop_no_length_test(blocks, priv, mode) ==
    IF blocks = <<>> THEN [ok |-> TRUE, out |-> <<>>]
    ELSE
      LET plain_block == _mod_bytes(priv.n) - 1
          c == from_bytes(Head(blocks))
          m == rsa_decrypt_int(c, priv)
      IN  IF ~m.ok THEN m
          ELSE IF ~Fits(m.val, plain_block) THEN Err("OverflowError")
          ELSE
            LET p     == to_bytes(m.val, plain_block)
                L     == from_bytes(Slice(p, 0, 2))
                start == IF IsRand(mode) THEN 3 ELSE 2
                rest  == DecLoop_no_length_test(Tail(blocks), priv, mode)
            IN  IF ~rest.ok THEN rest
                ELSE [ok |-> TRUE, out |-> Slice(p, start, L) \o rest.out]

\* The loop over the blocks (lines 178-199).
RECURSIVE DecLoop(_, _, _)
DecLoop(blocks, priv, mode) ==
    IF blocks = <<>> THEN [ok |-> TRUE, out |-> <<>>]
    ELSE
      LET plain_block == _mod_bytes(priv.n) - 1
          c == from_bytes(Head(blocks))
          m == rsa_decrypt_int(c, priv)
      IN  IF ~m.ok THEN m
          ELSE IF ~Fits(m.val, plain_block) THEN Err("OverflowError")
          ELSE
            LET p     == to_bytes(m.val, plain_block)
                L     == from_bytes(Slice(p, 0, 2))
                start == IF IsRand(mode) THEN 3 ELSE 2
                cap   == payload_cap(plain_block, mode)
            IN  IF L < 0 \/ L > cap THEN Err("bad plaintext length")
                ELSE LET rest == DecLoop(Tail(blocks), priv, mode)
                     IN  IF ~rest.ok THEN rest
                         ELSE [ok |-> TRUE, out |-> Slice(p, start, L) \o rest.out]

\* decrypt_bytes(data, priv, mode)
decrypt_bytes(data, priv, mode) ==
    LET k == _mod_bytes(priv.n)
    IN  IF IsFixed(mode)
        THEN IF Len(data) % k # 0 THEN Err("cipher length not aligned")
             ELSE DecLoop(SplitFixed(data, k), priv, mode)
        ELSE IF mode \in {"raw_len", "rand_len"}
        THEN LET sp == SplitLen(data, 0)
             IN  IF ~sp.ok THEN sp ELSE DecLoop(sp.blocks, priv, mode)
        ELSE Err("bad mode")

\* ------------------------------------------- specification of the codec

\* A label that is none of the four modes.
BadMode == "ecb"

\* The byte values plaintexts are built from: the least and the greatest.
DataBytes == {0, ByteBase - 1}

RECURSIVE SeqsUpTo(_, _)
SeqsUpTo(S, n) ==
    IF n = 0 THEN {<<>>}
    ELSE LET shorter == SeqsUpTo(S, n - 1)
         IN  shorter \cup {Append(s, x) : s \in {t \in shorter : Len(t) = n - 1}, x \in S}

NoResult == [ok |-> FALSE, err |-> "not run"]

\* The nonce bytes: secrets.randbelow(255) + 1  (line 133).
NonceBytes == 1 .. (ByteBase - 1)

\* How many nonces encrypt_bytes draws: one per loop iteration in the
\* randomized modes (line 132-133).
NumDraws(data, pub, mode) ==
    LET plain_block == _mod_bytes(pub.n) - 1
    IN  IF IsRand(mode) /\ plain_block >= MinPlainBlock
        THEN NumChunks(Len(data), 0, payload_cap(plain_block, mode))
        ELSE 0

CodecOff ==
    /\ cpc = "off" /\ ckey = CHOOSE kp \in KeyPairs : TRUE
    /\ cmode = "rand_len" /\ cdata = <<>> /\ cenc = NoResult /\ cdec = NoResult

CodecInit ==
    /\ cpc = "start"
    /\ ckey \in KeyPairs
    /\ cmode \in Modes \cup {BadMode}
    /\ cdata \in SeqsUpTo(DataBytes, MaxLen)
    /\ cenc = NoResult
    /\ cdec = NoResult

Encrypt ==
    /\ cpc = "start"
    /\ \E nonces \in [1 .. NumDraws(cdata, ckey.pub, cmode) -> NonceBytes] :
         LET r == encrypt_bytes(cdata, ckey.pub, cmode, nonces)
         IN  /\ cenc' = r
             /\ cpc' = IF r.ok THEN "encrypted" ELSE "failed"
    /\ UNCHANGED <<ckey, cmode, cdata, cdec>>
    /\ UNCHANGED <<frameVars, protoVars, callVars, appVars>>

Decrypt ==
    /\ cpc = "encrypted"
    /\ cdec' = decrypt_bytes(cenc.out, ckey.priv, cmode)
    /\ cpc' = "decrypted"
    /\ UNCHANGED <<ckey, cmode, cdata, cenc>>
    /\ UNCHANGED <<frameVars, protoVars, callVars, appVars>>


NextCodec == Encrypt \/ Decrypt


\* -------------------------------------------------------------- framing

\* The messages the framing specification sends.  "lambda" stands for a
\* value the serializer refuses (orjson.dumps and pickle.dumps raise).
WireObjs == {"ping", "reply", "lambda"}

\* orjson.dumps / pickle.dumps: an injective encoding of the values the
\* serializer accepts; it raises on the others.
dumps(obj) ==
    CASE obj = "ping"  -> [ok |-> TRUE, val |-> <<1>>]
      [] obj = "reply" -> [ok |-> TRUE, val |-> <<0, 2>>]
      [] OTHER         -> Err("TypeError")

\* orjson.loads / pickle.loads: the inverse; raises on any other bytes.
loads(bytes) ==
    IF \E o \in WireObjs : dumps(o).ok /\ dumps(o).val = bytes
    THEN [ok |-> TRUE,
          val |-> CHOOSE o \in WireObjs : dumps(o).ok /\ dumps(o).val = bytes]
    ELSE Err("decode error")

\* pickle.loads: the value of the pickle the bytes begin with (what
\* follows the pickle's end is ignored); raises when they begin with none.
pickle_loads(bytes) ==
    IF \E o \in WireObjs :
         dumps(o).ok /\ Len(dumps(o).val) <= Len(bytes)
         /\ SubSeq(bytes, 1, Len(dumps(o).val)) = dumps(o).val
    THEN [ok |-> TRUE,
          val |-> CHOOSE o \in WireObjs :
                    dumps(o).ok /\ Len(dumps(o).val) <= Len(bytes)
                    /\ SubSeq(bytes, 1, Len(dumps(o).val)) = dumps(o).val]
    ELSE Err("UnpicklingError")

\* struct.pack(">I", n): four bytes, big-endian; raises when n does not fit.
pack_I(n) == IF Fits(n, 4) THEN [ok |-> TRUE, val |-> to_bytes(n, 4)]
             ELSE Err("struct.error")

\* What a send call does: ok or the error raised, and the bytes it handed
\* to conn.sendall before returning or raising.
Sent(bytes, payload) ==
    [ok |-> TRUE, err |-> "", bytes |-> bytes, payload |-> payload]
Raised(msg) == [ok |-> FALSE, err |-> msg, bytes |-> <<>>, payload |-> <<>>]

\* The frame of a payload: header + payload in one sendall.
FrameOf(payload) ==
    LET header == pack_I(Len(payload))
    IN  IF ~header.ok THEN Raised(header.err)
        ELSE Sent(header.val \o payload, payload)

\* send_msg(conn, obj)
send_msg(obj) ==
    LET payload == dumps(obj)
    IN  IF ~payload.ok THEN Raised(payload.err) ELSE FrameOf(payload.val)

\* send_encrypted with the length of the pickled plaintext, not of the
\* ciphertext, in the frame's prefix.
send_encrypted_plain_len(obj, peer_pub, mode, nonces) ==
    LET plain == dumps(obj)
    IN  IF ~plain.ok THEN Raised(plain.err)
        ELSE LET enc == encrypt_bytes(plain.val, peer_pub, mode, nonces)
             IN  IF ~enc.ok THEN Raised(enc.err)
                 ELSE Sent(pack_I(Len(plain.val)).val \o enc.out, enc.out)

\* send_encrypted(conn, obj, peer_pub, mode)
send_encrypted(obj, peer_pub, mode, nonces) ==
    LET plain == dumps(obj)
    IN  IF ~plain.ok THEN Raised(plain.err)
        ELSE LET enc == encrypt_bytes(plain.val, peer_pub, mode, nonces)
             IN  IF ~enc.ok THEN Raised(enc.err) ELSE FrameOf(enc.out)

\* pack_pickle_bin(header_obj, bin_data)
pack_pickle_bin(header_obj, bin_data) ==
    LET h == dumps(header_obj)
    IN  IF ~h.ok THEN h
        ELSE IF ~pack_I(Len(h.val)).ok \/ ~pack_I(Len(bin_data)).ok
        THEN Err("struct.error")
        ELSE [ok |-> TRUE,
              val |-> pack_I(Len(h.val)).val \o h.val
                      \o pack_I(Len(bin_data)).val \o bin_data]

\* unpack_pickle_bin taking the payload from where its length field begins.
unpack_pickle_bin_at_length(packet) ==
    IF Len(Slice(packet, 0, 4)) # 4 THEN Err("struct.error")
    ELSE LET hlen   == from_bytes(Slice(packet, 0, 4))
             header == pickle_loads(Slice(packet, 4, hlen))
             off    == 4 + hlen
         IN  IF ~header.ok THEN header
             ELSE IF Len(Slice(packet, off, 4)) # 4 THEN Err("struct.error")
             ELSE LET blen == from_bytes(Slice(packet, off, 4))
                  IN  [ok |-> TRUE, header |-> header.val,
                       bin |-> Slice(packet, off, blen)]

\* unpack_pickle_bin(packet): struct.unpack raises on fewer than 4 bytes,
\* pickle.loads on bytes that are no pickle; the slices clip silently.
unpack_pickle_bin(packet) ==
    IF Len(Slice(packet, 0, 4)) # 4 THEN Err("struct.error")
    ELSE LET hlen   == from_bytes(Slice(packet, 0, 4))
             header == pickle_loads(Slice(packet, 4, hlen))
             off    == 4 + hlen
         IN  IF ~header.ok THEN header
             ELSE IF Len(Slice(packet, off, 4)) # 4 THEN Err("struct.error")
             ELSE LET blen == from_bytes(Slice(packet, off, 4))
                  IN  [ok |-> TRUE, header |-> header.val,
                       bin |-> Slice(packet, off + 4, blen)]

\* send_encrypted_bin(conn, header_obj, bin_data, peer_pub, mode)
send_encrypted_bin(header_obj, bin_data, peer_pub, mode, nonces) ==
    LET packet == pack_pickle_bin(header_obj, bin_data)
    IN  IF ~packet.ok THEN Raised(packet.err)
        ELSE LET enc == encrypt_bytes(packet.val, peer_pub, mode, nonces)
             IN  IF ~enc.ok THEN Raised(enc.err) ELSE FrameOf(enc.out)

\* What recv_msg / recv_encrypted / recv_encrypted_bin make of the payload
\* bytes recv_exact returned (protocol.py line 28, secure_protocol.py lines
\* 22-23 and 62-63).
Decoded(kind, payload, priv, mode) ==
    IF kind = "msg" THEN loads(payload)
    ELSE LET plain == decrypt_bytes(payload, priv, mode)
         IN  IF ~plain.ok THEN plain
             ELSE IF kind = "enc" THEN pickle_loads(plain.out)
             ELSE unpack_pickle_bin(plain.out)

\* recv_exact asking for every one of the n bytes again on each pass.
RecvRequest_whole(n, data) == n

\* The argument of conn.recv in recv_exact: the bytes still missing.
RecvRequest(n, data) == n - Len(data)


\* ------------------------------------------ specification of the framing

FrameOff ==
    /\ fpc = "off" /\ fmode = "rand_len" /\ fkey = CHOOSE kp \in KeyPairs : TRUE
    /\ stream = <<>> /\ sends = <<>> /\ eof = FALSE
    /\ rpc = "idle" /\ rpos = 0 /\ rstart = 0 /\ rneed = 0 /\ rdata = <<>>
    /\ rres = <<>>

FrameInit ==
    /\ fpc = "on"
    /\ fmode \in {"raw_fixed", "rand_len"}
    /\ fkey \in KeyPairs
    /\ stream = <<>> /\ sends = <<>> /\ eof = FALSE
    /\ rpc = "idle" /\ rpos = 0 /\ rstart = 0 /\ rneed = 0 /\ rdata = <<>>
    /\ rres = <<>>

\* What the sender of the framing specification calls send_encrypted and
\* send_encrypted_bin with: a message, a header with a binary payload, and
\* a value the serializer refuses.
EncObjs == {"reply", "lambda"}
BinPackets == {<<"ping", <<>>>>, <<"ping", <<ByteBase - 1>>>>, <<"lambda", <<>>>>}

\* The nonces of one send call of the framing specification: every block
\* of the call draws the same value, the least or the greatest.
FrameNonceBytes == {1, ByteBase - 1}
FrameNonces(r) == [i \in 1 .. MaxLen + 9 |-> r]

\* The sender's call returns or raises; what it handed to sendall is on
\* the connection.
Wrote(kind, r) ==
    /\ stream' = stream \o r.bytes
    /\ sends' = Append(sends, [kind |-> kind, ok |-> r.ok, err |-> r.err,
                                payload |-> r.payload])
    /\ UNCHANGED <<fpc, fmode, fkey, eof, rpc, rpos, rstart, rneed, rdata, rres>>
    /\ UNCHANGED <<codecVars, protoVars, callVars, appVars>>

CanSend == fpc = "on" /\ ~eof /\ Len(sends) < MaxFrames

SendMsg ==
    /\ CanSend
    /\ \E obj \in WireObjs : Wrote("msg", send_msg(obj))

SendEncrypted ==
    /\ CanSend
    /\ \E obj \in EncObjs, r \in FrameNonceBytes :
         Wrote("enc", send_encrypted(obj, fkey.pub, fmode, FrameNonces(r)))

SendEncryptedBin ==
    /\ CanSend
    /\ \E hb \in BinPackets, r \in FrameNonceBytes :
         Wrote("bin", send_encrypted_bin(hb[1], hb[2], fkey.pub, fmode, FrameNonces(r)))

\* The sending peer closes or dies.  From now on conn.recv may return the
\* bytes still in flight, or b"" (what was in flight when the peer died is
\* lost; after a clean close it returns b"" only when nothing is left).
PeerClose ==
    /\ fpc = "on" /\ ~eof
    /\ eof' = TRUE
    /\ UNCHANGED <<fpc, fmode, fkey, stream, sends, rpc, rpos, rstart, rneed, rdata, rres>>
    /\ UNCHANGED <<codecVars, protoVars, callVars, appVars>>

\* The frames sent so far, in order: kind and payload.
OkSends == SelectSeq(sends, LAMBDA x : x.ok)

\* The receiver calls recv_msg, recv_encrypted or recv_encrypted_bin, all
\* of which begin with recv_exact(conn, 4).
RecvCall ==
    /\ fpc = "on" /\ rpc = "idle" /\ Len(rres) < MaxFrames
    /\ rpc' = "header" /\ rstart' = rpos /\ rneed' = 4 /\ rdata' = <<>>
    /\ UNCHANGED <<fpc, fmode, fkey, stream, sends, eof, rpos, rres>>
    /\ UNCHANGED <<codecVars, protoVars, callVars, appVars>>

Available == Len(stream) - rpos

Min(a, b) == IF a < b THEN a ELSE b

\* The recv call is the one the protocol pairs with the frame it reads.
KindExpected ==
    IF Len(rres) < Len(OkSends) THEN OkSends[Len(rres) + 1].kind ELSE "msg"

\* recv_exact returned `payload` for the declared length: the call ends.
Returned(payload) ==
    /\ rres' = Append(rres, [payload |-> payload,
                            msg |-> Decoded(KindExpected, payload, fkey.priv, fmode)])
    /\ rpc' = "idle" /\ rneed' = 0 /\ rdata' = <<>>

\* One conn.recv of recv_exact returns c bytes; the code runs on to its
\* next conn.recv or to its return.
RecvChunk ==
    /\ fpc = "on" /\ rpc \in {"header", "payload"}
    /\ Available > 0
    /\ \E c \in 1 .. Min(RecvRequest(rneed, rdata), Available) :
         LET data == rdata \o SubSeq(stream, rpos + 1, rpos + c)
         IN  /\ rpos' = rpos + c
             /\ IF Len(data) < rneed
                THEN /\ rdata' = data
                     /\ UNCHANGED <<rpc, rneed, rres>>
                ELSE IF rpc = "header"
                THEN IF Len(data) # 4
                     THEN /\ rpc' = "failed" /\ rdata' = data
                          /\ UNCHANGED <<rneed, rres>>
                     ELSE IF from_bytes(data) = 0
                     THEN Returned(<<>>)
                     ELSE /\ rpc' = "payload" /\ rneed' = from_bytes(data)
                          /\ rdata' = <<>> /\ UNCHANGED rres
                ELSE Returned(data)
    /\ UNCHANGED <<fpc, fmode, fkey, stream, sends, eof, rstart>>
    /\ UNCHANGED <<codecVars, protoVars, callVars, appVars>>

\* conn.recv returns b"": recv_exact raises ConnectionError("socket closed").
RecvClosed ==
    /\ fpc = "on" /\ rpc \in {"header", "payload"}
    /\ eof
    /\ rpc' = "failed"
    /\ UNCHANGED <<fpc, fmode, fkey, stream, sends, eof, rpos, rstart, rneed,
                   rdata, rres>>
    /\ UNCHANGED <<codecVars, protoVars, callVars, appVars>>

NextFrame ==
    \/ SendMsg \/ SendEncrypted \/ SendEncryptedBin \/ PeerClose
    \/ RecvCall \/ RecvChunk \/ RecvClosed

\* ------------------------------------------------ handshake: the messages

\* Python's None, and a value that is not None.
None == <<>>
Some(x) == <<x>>

\* A character that is not a decimal digit.
Letter == 10

\* str(n) of a non-negative int: its decimal digits.
RECURSIVE str(_)
str(n) == IF n < 10 THEN <<n>> ELSE Append(str(n \div 10), n % 10)

RECURSIVE DecimalValue(_)
DecimalValue(s) ==
    IF s = <<>> THEN 0
    ELSE 10 * DecimalValue(SubSeq(s, 1, Len(s) - 1)) + s[Len(s)]

\* int(s) of a string: raises ValueError unless it is a decimal numeral.
int(s) ==
    IF s # <<>> /\ \A i \in 1 .. Len(s) : s[i] \in 0 .. 9
    THEN [ok |-> TRUE, val |-> DecimalValue(s)]
    ELSE Err("ValueError")

\* A context whose private key comes from another generate_keypair call.
CryptoCtx_second_keypair(kp, mode) ==
    [pub |-> kp.pub, priv |-> [n |-> kp.priv.n + 2, d |-> kp.priv.d], mode |-> mode]

\* CryptoCtx(pub, priv, mode)
CryptoCtx(kp, mode) == [pub |-> kp.pub, priv |-> kp.priv, mode |-> mode]

\* pub_to_json(pub)
pub_to_json(pub) == [n |-> str(pub.n), e |-> pub.e]

\* pub_from_json(d)
pub_from_json(d) ==
    LET n == int(d.n)
    IN  IF ~n.ok THEN n ELSE [ok |-> TRUE, val |-> PublicKey(n.val, d.e)]

\* A wire message: its "type", its "ok" ("-" when the key is absent), its
\* "error", its "pub" (None when absent) and what else it carries.
Msg(type, ok, error, pub, what) ==
    [type |-> type, ok |-> ok, error |-> error, pub |-> pub, what |-> what]

\* A client's hello carrying both halves of its key pair.
Hello_priv(ctx) ==
    Msg("hello", "-", "", Some([n |-> str(ctx.priv.n), e |-> ctx.priv.d]), "")

\* {"type": "hello", "pub": pub_to_json(self.crypto.pub)}
Hello(ctx) == Msg("hello", "-", "", Some(pub_to_json(ctx.pub)), "")

\* {"ok": True, "type": "hello_ack", "pub": pub_to_json(CRYPTO.pub)}
HelloAck(ctx) == Msg("hello_ack", "true", "", Some(pub_to_json(ctx.pub)), "")

\* {"ok": False, "error": str(e)}
ErrorMsg(e) == Msg("", "false", e, None, "")

\* A request of the client: {"type": op, ...}.
Request(op) == Msg(op, "-", "", None, "args")

\* A response of a handler: {"ok": ..., ...}.
Response(ok, what) == Msg("", ok, IF ok = "true" THEN "" ELSE "refused", None, what)

\* A value pickle.dumps refuses (a memoryview of a bytea column).
Unpicklable == "memoryview"

\* A frame on a connection: who wrote it ("c" the initiator, "s" the
\* accepting side), whether its payload is a ciphertext, the layout of the
\* plaintext ("json", "obj" a pickled object, "bin" a pack_pickle_bin
\* packet), the public key and the mode it was encrypted with, the message.
Frame(from, enc, fmt, key, mode, body) ==
    [from |-> from, enc |-> enc, fmt |-> fmt, key |-> key, mode |-> mode,
     body |-> body]

Wrote1(f) == [ok |-> TRUE, err |-> "", frames |-> <<f>>]
Wrote0(e) == [ok |-> FALSE, err |-> e, frames |-> <<>>]

\* send_msg on a connection: one plaintext frame.
SendPlain(from, msg) == Wrote1(Frame(from, FALSE, "json", None, "", msg))

\* send_encrypted / send_encrypted_bin on a connection: pickle.dumps raises
\* on a value it refuses, encrypt_bytes raises on the key and on the mode
\* exactly as it does on any data (lines 105-120 run before the loop), and
\* by then nothing was written.
SendSealed(from, msg, fmt, peer_pub, mode) ==
    IF msg.what = Unpicklable THEN Wrote0("TypeError")
    ELSE LET enc == encrypt_bytes(<<>>, peer_pub, mode, <<>>)
         IN  IF ~enc.ok THEN Wrote0(enc.err)
             ELSE Wrote1(Frame(from, TRUE, fmt, Some(peer_pub), mode, msg))

SendEnc(from, msg, peer_pub, mode) == SendSealed(from, msg, "obj", peer_pub, mode)
SendEncBin(from, msg, peer_pub, mode) == SendSealed(from, msg, "bin", peer_pub, mode)

\* recv_msg of a frame: orjson.loads raises on a ciphertext.
OpenPlain(f) ==
    IF f.enc THEN Err("JSONDecodeError") ELSE [ok |-> TRUE, val |-> f.body]

\* recv_encrypted (fmt "obj") and recv_encrypted_bin (fmt "bin") of a frame:
\* decrypt_bytes and the unpickling give the message back when the frame was
\* encrypted under the reader's key, in the reader's mode, in the layout the
\* reader expects, and raise otherwise.
OpenSealed(f, fmt, priv, mode) ==
    IF f.enc /\ f.key[1].n = priv.n /\ f.mode = mode /\ f.fmt = fmt
    THEN [ok |-> TRUE, val |-> f.body]
    ELSE Err("decode error")

\* ------------------------------------------- handshake: the connections

Listeners == {"main", "upload"}

\* Connections one listener accepts.
MaxConns == 2

\* The key pairs by the size of their modulus.
UsableKeys == {kp \in KeyPairs : _mod_bytes(kp.pub.n) - 1 >= MinPlainBlock}
SmallKeys == KeyPairs \ UsableKeys
LargestKey == CHOOSE kp \in KeyPairs : \A o \in KeyPairs : o.pub.n <= kp.pub.n
ClientKey ==
    IF UsableKeys \ {LargestKey} # {}
    THEN CHOOSE kp \in UsableKeys \ {LargestKey} : TRUE
    ELSE LargestKey
SmallKey == CHOOSE kp \in KeyPairs : \A o \in KeyPairs : kp.pub.n <= o.pub.n

\* The mode the server runs with (RSA_MODE, default "rand_len").
ServerMode == "rand_len"

\* init_crypto() of the clients that connect: one started like the server,
\* one with another RSA_MODE, one with an RSA_BITS whose modulus is too
\* short for the codec.
ClientCtx(who) ==
    CASE who = "same_mode"  -> CryptoCtx(ClientKey, ServerMode)
      [] who = "other_mode" -> CryptoCtx(ClientKey, "raw_fixed")
      [] who = "small_key"  -> CryptoCtx(SmallKey, ServerMode)
      [] OTHER              -> CryptoCtx(ClientKey, ServerMode)

Peer(kind, who, op) == [kind |-> kind, who |-> who, op |-> op]

\* Who connects to a listener: SocketClient methods (call and file_get on
\* PORT, file_attach and insert_with_files on UPLOAD_PORT), and programs
\* that are not SocketClient and send one frame of their own.
ClientPeers(l) ==
    IF l = "main"
    THEN {Peer("client", "same_mode", "call"), Peer("client", "same_mode", "file_get"),
          Peer("client", "other_mode", "call"), Peer("client", "small_key", "call")}
    ELSE {Peer("client", "same_mode", "file_attach"),
          Peer("client", "same_mode", "insert_with_files"),
          Peer("client", "other_mode", "file_attach"),
          Peer("client", "small_key", "file_attach")}

RawPeers ==
    {Peer("raw", "", f) : f \in {"ping", "ping_pub", "hello_nopub", "hello_badn"}}

\* The first frame of a program that is not SocketClient.
RawFirstMsg(f) ==
    CASE f = "ping"        -> Msg("ping", "-", "", None, "")
      [] f = "ping_pub"    -> Msg("ping", "-", "", Some(pub_to_json(ClientKey.pub)), "")
      [] f = "hello_nopub" -> Msg("hello", "-", "", None, "")
      [] OTHER             -> Msg("hello", "-", "", Some([n |-> <<Letter>>, e |-> 3]), "")

NoConn ==
    [id |-> 0, peer |-> Peer("none", "", ""), ppc |-> "done", frames |-> <<>>,
     srvRead |-> 0, cliRead |-> 0, open |-> FALSE, peerClosed |-> TRUE,
     reqsRead |-> 0, served |-> 0, excs |-> <<>>, cres |-> "none"]

\* A connection just accepted.
\*   ppc: the peer stands at "start", "wait_ack", "wait_reply" or is "done"
\*   frames: every frame written to the connection, in order
\*   srvRead / cliRead: frames of the other end each end has read
\*   open: the accepting side has not closed its socket
\*   peerClosed: the peer has closed its socket
\*   reqsRead: encrypted request frames the accepting side has read
\*   served: times the accepting side went through its request step
\*   excs: the exceptions an except clause of the listener caught
\*   cres: how the client's method ended
NewConn(id, peer) ==
    [id |-> id, peer |-> peer, ppc |-> "start", frames |-> <<>>,
     srvRead |-> 0, cliRead |-> 0, open |-> TRUE, peerClosed |-> FALSE,
     reqsRead |-> 0, served |-> 0, excs |-> <<>>, cres |-> "none"]

FramesFrom(c, from) == SelectSeq(c.frames, LAMBDA f : f.from = from)

\* The next frame of the other end, or the error recv_exact raises when
\* the other end has closed and nothing is left.
NextFrameFor(c, reader) ==
    LET theirs == FramesFrom(c, IF reader = "s" THEN "c" ELSE "s")
        taken  == IF reader = "s" THEN c.srvRead ELSE c.cliRead
    IN  IF taken < Len(theirs) THEN [ok |-> TRUE, val |-> theirs[taken + 1]]
        ELSE Err("socket closed")

\* A read of the accepting side that a timeout of its own would release.
ServerCanRead_timeout(c) == TRUE

\* A blocking read of the accepting side returns or raises.
ServerCanRead(c) == NextFrameFor(c, "s").ok \/ c.peerClosed

\* A blocking read of the initiator returns (or raises, see ClientEOF).
ClientCanRead(c) == NextFrameFor(c, "c").ok

\* ---------------------------------------- handshake: the accepting side

\* client_pub = None at the top of each connection, left out: the listener
\* keeps the key of the connection before.
FreshClientPub_stale(old) == old

\* client_pub = None  (main.py line 357, line 404)
FreshClientPub(old) == None

\* The test of the first frame with no message ever refused.
NotHello_never(msg) == FALSE

\* hello.get("type") != "hello"  (line 360, line 407)
NotHello(msg) == msg.type # "hello"

\* A listener that keeps the connection for the next request.
LoopBack_keepalive(stage) ==
    IF stage = "request" THEN [spc |-> "recv_req", open |-> TRUE]
    ELSE [spc |-> "accept", open |-> FALSE]

\* A listener back at accept with the socket of the connection left open.
LoopBack_no_close(stage) == [spc |-> "accept", open |-> TRUE]

\* Whatever way the body of `with conn:` is left (continue, its end, the
\* except clause), the socket is closed and `while True` is back at
\* server.accept()  (lines 354-356, 401-403).
LoopBack(stage) == [spc |-> "accept", open |-> FALSE]

\* except Exception as e  (lines 375-383, 541-549): the frames it writes
\* and the record of the exception it caught.  An exception of its own
\* send is swallowed by the inner `except Exception: pass`.
except_boundary(cpub, e) ==
    LET err == ErrorMsg(e)
        r   == IF cpub # None THEN SendEnc("s", err, cpub[1], CRYPTO.mode)
               ELSE SendPlain("s", err)
    IN  [frames |-> r.frames,
         excs   |-> <<[err |-> e, keyKnown |-> cpub # None,
                       how |-> IF ~r.ok THEN "none"
                               ELSE IF cpub # None THEN "enc" ELSE "plain"]>>]

\* The body of `with conn:` ends at `stage` having written `frames` and
\* caught `excs`.
Leave(l, c, stage, frames, excs) ==
    /\ conn' = [conn EXCEPT ![l] =
                  [c EXCEPT !.frames = @ \o frames, !.excs = @ \o excs,
                            !.open = LoopBack(stage).open]]
    /\ spc' = [spc EXCEPT ![l] = LoopBack(stage).spc]
    /\ UNCHANGED client_pub

\* The body raised e outside any inner try.
Raise(l, c, stage, e) ==
    LET b == except_boundary(client_pub[l], e)
    IN  Leave(l, c, stage, b.frames, b.excs)

\* A send of the body: when it raises, the except clause runs.
SendOrRaise(l, c, stage, r) ==
    IF r.ok THEN Leave(l, c, stage, r.frames, <<>>)
    ELSE Raise(l, c, stage, r.err)

\* server.accept() returns a connection (lines 355-357, 402-404).
Accept(l) ==
    /\ spc[l] = "accept"
    /\ nconn[l] < MaxConns
    /\ \E peer \in ClientPeers(l) \cup RawPeers :
         conn' = [conn EXCEPT ![l] = NewConn(nconn[l] + 1, peer)]
    /\ nconn' = [nconn EXCEPT ![l] = @ + 1]
    /\ client_pub' = [client_pub EXCEPT ![l] = FreshClientPub(@)]
    /\ spc' = [spc EXCEPT ![l] = "recv_hello"]
    /\ UNCHANGED CRYPTO
    /\ UNCHANGED <<codecVars, frameVars, callVars, appVars>>

\* serve / serve_upload from recv_msg(conn) to the next blocking call
\* (lines 359-365, 406-412).
ServeHello(l) ==
    /\ spc[l] = "recv_hello"
    /\ ServerCanRead(conn[l])
    /\ LET f  == NextFrameFor(conn[l], "s")
           c  == IF f.ok THEN [conn[l] EXCEPT !.srvRead = @ + 1] ELSE conn[l]
           hello == IF f.ok THEN OpenPlain(f.val) ELSE f
       IN  IF ~hello.ok THEN Raise(l, c, "hello", hello.err)
           ELSE IF NotHello(hello.val)
           THEN Leave(l, c, "hello",
                      SendPlain("s", ErrorMsg("expected hello")).frames, <<>>)
           ELSE IF hello.val.pub = None THEN Raise(l, c, "hello", "KeyError")
           ELSE LET k == pub_from_json(hello.val.pub[1])
                IN  IF ~k.ok THEN Raise(l, c, "hello", k.err)
                    ELSE /\ client_pub' = [client_pub EXCEPT ![l] = Some(k.val)]
                         /\ conn' = [conn EXCEPT ![l] =
                               [c EXCEPT !.frames =
                                   @ \o SendPlain("s", HelloAck(CRYPTO)).frames]]
                         /\ spc' = [spc EXCEPT ![l] = "recv_req"]
    /\ UNCHANGED <<CRYPTO, nconn>>
    /\ UNCHANGED <<codecVars, frameVars, callVars, appVars>>

\* How handle(req) ends for a request of the main listener: a response
\* dict with ok true or false, a response holding a value pickle refuses, a
\* {"__bin__": True, ...} response (file_get), or an exception (handle
\* catches only what is raised under its own try, lines 91-111).
HandleOutcomes(req) ==
    IF req.type = "file_get" THEN {"bin", "fail"}
    ELSE {"ok", "fail", "unpicklable", "raise"}

\* serve from recv_encrypted to the end of the body (lines 367-383).
ServeRequest ==
    /\ spc["main"] = "recv_req"
    /\ ServerCanRead(conn["main"])
    /\ LET l  == "main"
           f  == NextFrameFor(conn[l], "s")
           c  == IF f.ok
                 THEN [conn[l] EXCEPT !.srvRead = @ + 1, !.served = @ + 1,
                                      !.reqsRead = @ + (IF f.val.enc THEN 1 ELSE 0)]
                 ELSE [conn[l] EXCEPT !.served = @ + 1]
           req == IF f.ok THEN OpenSealed(f.val, "obj", CRYPTO.priv, CRYPTO.mode)
                  ELSE f
           key == client_pub[l][1]
       IN  IF ~req.ok THEN Raise(l, c, "request", req.err)
           ELSE \E out \in HandleOutcomes(req.val) :
                  CASE out = "raise" -> Raise(l, c, "request", "handler error")
                    [] out = "bin" ->
                         SendOrRaise(l, c, "request",
                             SendEncBin("s", Response("true", "file"), key, CRYPTO.mode))
                    [] out = "unpicklable" ->
                         SendOrRaise(l, c, "request",
                             SendEnc("s", Response("true", Unpicklable), key, CRYPTO.mode))
                    [] OTHER ->
                         SendOrRaise(l, c, "request",
                             SendEnc("s", Response(IF out = "ok" THEN "true" ELSE "false",
                                                   "data"), key, CRYPTO.mode))
    /\ UNCHANGED <<CRYPTO, nconn>>
    /\ UNCHANGED <<codecVars, frameVars, callVars, appVars>>

\* How the body of serve_upload goes on after recv_encrypted_bin:
\*   "raise": verify_token, audit_log, file_attach or _unpack_multi_files
\*       raises (lines 418, 437-460, 477)
\*   "reply_ok", "reply_err": it sends a response and continues (lines
\*       429-435, 462-463, 471-475, 479-486, 539)
\*   "insert_fail": the inner try raises before its send (lines 488-528)
\*   "insert_ok", "insert_unpicklable": the inner try reaches its send
\*       (line 529)
UploadOutcomes(header) ==
    IF header.type = "insert_with_files"
    THEN {"raise", "reply_err", "insert_fail", "insert_ok", "insert_unpicklable"}
    ELSE {"raise", "reply_ok", "reply_err"}

\* The inner except of insert_with_files (lines 530-535): it sends the
\* error itself; an exception of that send reaches the outer except.
InnerExcept(l, c, e) ==
    LET r == SendEnc("s", ErrorMsg(e), client_pub[l][1], CRYPTO.mode)
        x == <<[err |-> e, keyKnown |-> TRUE,
                how |-> IF r.ok THEN "enc" ELSE "none"]>>
    IN  IF r.ok THEN Leave(l, c, "request", r.frames, x)
        ELSE LET b == except_boundary(client_pub[l], r.err)
             IN  Leave(l, c, "request", b.frames, x \o b.excs)

\* serve_upload from recv_encrypted_bin to the end of the body (lines
\* 414-549).
ServeUpload ==
    /\ spc["upload"] = "recv_req"
    /\ ServerCanRead(conn["upload"])
    /\ LET l  == "upload"
           f  == NextFrameFor(conn[l], "s")
           c  == IF f.ok
                 THEN [conn[l] EXCEPT !.srvRead = @ + 1, !.served = @ + 1,
                                      !.reqsRead = @ + (IF f.val.enc THEN 1 ELSE 0)]
                 ELSE [conn[l] EXCEPT !.served = @ + 1]
           req == IF f.ok THEN OpenSealed(f.val, "bin", CRYPTO.priv, CRYPTO.mode)
                  ELSE f
           key == client_pub[l][1]
       IN  IF ~req.ok THEN Raise(l, c, "request", req.err)
           ELSE \E out \in UploadOutcomes(req.val) :
                  CASE out = "raise" -> Raise(l, c, "request", "handler error")
                    [] out = "insert_fail" -> InnerExcept(l, c, "insert failed")
                    [] out \in {"insert_ok", "insert_unpicklable"} ->
                         LET r == SendEnc("s", Response("true",
                                      IF out = "insert_ok" THEN "data" ELSE Unpicklable),
                                      key, CRYPTO.mode)
                         IN  IF r.ok THEN Leave(l, c, "request", r.frames, <<>>)
                             ELSE InnerExcept(l, c, r.err)
                    [] OTHER ->
                         SendOrRaise(l, c, "request",
                             SendEnc("s", Response(IF out = "reply_ok" THEN "true"
                                                   ELSE "false", "data"),
                                     key, CRYPTO.mode))
    /\ UNCHANGED <<CRYPTO, nconn>>
    /\ UNCHANGED <<codecVars, frameVars, callVars, appVars>>

\* ------------------------------------------- handshake: the initiator

PeerStep(l, c) ==
    /\ conn' = [conn EXCEPT ![l] = c]
    /\ UNCHANGED <<CRYPTO, spc, client_pub, nconn>>
    /\ UNCHANGED <<codecVars, frameVars, callVars, appVars>>

\* The method returned or raised: `with socket...` closes the socket.
Ended(c, how) == [c EXCEPT !.ppc = "done", !.peerClosed = TRUE, !.cres = how]

\* SocketClient sends its hello (socket_client.py lines 38-39, 89, 121,
\* 158).
ClientHello(l) ==
    LET c == conn[l]
    IN  /\ c.id > 0 /\ c.peer.kind = "client" /\ c.ppc = "start"
        /\ PeerStep(l, [c EXCEPT !.ppc = "wait_ack",
               !.frames = @ \o SendPlain("c", Hello(ClientCtx(c.peer.who))).frames])

\* A program that is not SocketClient sends its first frame.
RawFirst(l) ==
    LET c == conn[l]
    IN  /\ c.id > 0 /\ c.peer.kind = "raw" /\ c.ppc = "start"
        /\ PeerStep(l, [c EXCEPT !.ppc = "wait_reply",
               !.frames = @ \o SendPlain("c", RawFirstMsg(c.peer.op)).frames])

\* SocketClient from recv_msg(s) to its next blocking call (lines 40-45,
\* 90-99, 122-126).
ClientRequest(l) ==
    LET c == conn[l]
    IN  /\ c.id > 0 /\ c.peer.kind = "client" /\ c.ppc = "wait_ack"
        /\ ClientCanRead(c)
        /\ LET ctx == ClientCtx(c.peer.who)
               c1  == [c EXCEPT !.cliRead = @ + 1]
               hello_ack == OpenPlain(NextFrameFor(c, "c").val)
           IN  IF ~hello_ack.ok THEN PeerStep(l, Ended(c1, "raised"))
               ELSE IF hello_ack.val.ok # "true"
               THEN PeerStep(l, Ended(c1, IF c.peer.op = "file_get" THEN "raised"
                                          ELSE "returned"))
               ELSE IF hello_ack.val.pub = None THEN PeerStep(l, Ended(c1, "raised"))
               ELSE LET server_pub == pub_from_json(hello_ack.val.pub[1])
                        r == IF ~server_pub.ok THEN Wrote0(server_pub.err)
                             ELSE IF l = "upload"
                             THEN SendEncBin("c", Request(c.peer.op), server_pub.val, ctx.mode)
                             ELSE SendEnc("c", Request(c.peer.op), server_pub.val, ctx.mode)
                    IN  IF ~r.ok THEN PeerStep(l, Ended(c1, "raised"))
                        ELSE PeerStep(l, [c1 EXCEPT !.ppc = "wait_reply",
                                                   !.frames = @ \o r.frames])

\* SocketClient's last read: recv_encrypted, or recv_encrypted_bin in
\* file_get (lines 46, 101-103, 127).
ClientReply(l) ==
    LET c == conn[l]
    IN  /\ c.id > 0 /\ c.peer.kind = "client" /\ c.ppc = "wait_reply"
        /\ ClientCanRead(c)
        /\ LET ctx == ClientCtx(c.peer.who)
               got == OpenSealed(NextFrameFor(c, "c").val,
                                 IF c.peer.op = "file_get" THEN "bin" ELSE "obj",
                                 ctx.priv, ctx.mode)
           IN  PeerStep(l, Ended([c EXCEPT !.cliRead = @ + 1],
                   IF ~got.ok THEN "raised"
                   ELSE IF c.peer.op = "file_get" /\ got.val.ok # "true" THEN "raised"
                   ELSE "returned"))

\* A blocking read of SocketClient finds the connection closed with
\* nothing left to read: recv_exact raises.
ClientEOF(l) ==
    LET c == conn[l]
    IN  /\ c.id > 0 /\ c.peer.kind = "client" /\ c.ppc \in {"wait_ack", "wait_reply"}
        /\ ~ClientCanRead(c) /\ ~c.open
        /\ PeerStep(l, Ended(c, "raised"))

\* The peer closes its socket, or dies, wherever it stands.
Hangup(l) ==
    LET c == conn[l]
    IN  /\ c.id > 0 /\ c.ppc # "done"
        /\ PeerStep(l, Ended(c, "none"))

\* --------------------------------------- specification of the handshake

ProtoOff ==
    /\ CRYPTO = CryptoCtx(LargestKey, ServerMode)
    /\ spc = [l \in Listeners |-> "off"]
    /\ client_pub = [l \in Listeners |-> None]
    /\ conn = [l \in Listeners |-> NoConn]
    /\ nconn = [l \in Listeners |-> 0]

\* The server process once started: CRYPTO = init_crypto() (line 40), both
\* listeners at their first accept (lines 552-560).
ProtoInit ==
    /\ CRYPTO = CryptoCtx(LargestKey, ServerMode)
    /\ spc = [l \in Listeners |-> "accept"]
    /\ client_pub = [l \in Listeners |-> None]
    /\ conn = [l \in Listeners |-> NoConn]
    /\ nconn = [l \in Listeners |-> 0]

Next ==
    \/ \E l \in Listeners : Accept(l)
    \/ \E l \in Listeners : ServeHello(l)
    \/ ServeRequest
    \/ ServeUpload
    \/ \E l \in Listeners : ClientHello(l)
    \/ \E l \in Listeners : RawFirst(l)
    \/ \E l \in Listeners : ClientRequest(l)
    \/ \E l \in Listeners : ClientReply(l)
    \/ \E l \in Listeners : ClientEOF(l)
    \/ \E l \in Listeners : Hangup(l)

\* ------------------------------------- handshake: the blocking sendall

\* conn.sendall of a reply (protocol.py line 11, secure_protocol.py lines
\* 15 and 51) returns once the socket has taken every byte.  A reply larger
\* than the socket takes is handed over only as fast as the peer reads;
\* the accepted socket has no timeout (main.py lines 355, 402), so the
\* call stays in sendall ("sendall") until the peer has read ("sent") or
\* has closed.

\* serve from recv_encrypted into the sendall of a reply the socket does
\* not take at once: a file of file_get, the rows of a select (lines
\* 367-373).
ServeLargeReply ==
    /\ spc["main"] = "recv_req"
    /\ ServerCanRead(conn["main"])
    /\ LET l   == "main"
           f   == NextFrameFor(conn[l], "s")
           req == IF f.ok THEN OpenSealed(f.val, "obj", CRYPTO.priv, CRYPTO.mode)
                  ELSE f
           r   == SendEnc("s", Response("true", "data"), client_pub[l][1], CRYPTO.mode)
       IN  /\ req.ok /\ r.ok
           /\ conn' = [conn EXCEPT ![l] =
                         [@ EXCEPT !.srvRead = @ + 1, !.served = @ + 1,
                                   !.reqsRead = @ + 1]]
           /\ spc' = [spc EXCEPT ![l] = "sendall"]
    /\ UNCHANGED <<CRYPTO, client_pub, nconn>>
    /\ UNCHANGED <<codecVars, frameVars, callVars, appVars>>

\* The peer reads what the accepting side is writing: the socket takes the
\* rest of the reply.
PeerDrain ==
    /\ spc["main"] = "sendall"
    /\ ~conn["main"].peerClosed
    /\ spc' = [spc EXCEPT !["main"] = "sent"]
    /\ UNCHANGED <<CRYPTO, client_pub, conn, nconn>>
    /\ UNCHANGED <<codecVars, frameVars, callVars, appVars>>

\* sendall returns: the reply is on the connection and the body of
\* `with conn:` ends (lines 371-373).
FinishReply ==
    /\ spc["main"] = "sent"
    /\ LET l == "main"
           c == conn[l]
           r == IF c.peer.op = "file_get"
                THEN SendEncBin("s", Response("true", "file"), client_pub[l][1], CRYPTO.mode)
                ELSE SendEnc("s", Response("true", "data"), client_pub[l][1], CRYPTO.mode)
       IN  Leave(l, c, "request", r.frames, <<>>)
    /\ UNCHANGED <<CRYPTO, nconn>>
    /\ UNCHANGED <<codecVars, frameVars, callVars, appVars>>

\* The peer has closed: sendall raises, and so does the send of the except
\* clause (lines 375-383).
ReplyBroken ==
    /\ spc["main"] = "sendall"
    /\ conn["main"].peerClosed
    /\ Leave("main", conn["main"], "request", <<>>,
             <<[err |-> "ConnectionResetError", keyKnown |-> TRUE, how |-> "none"]>>)
    /\ UNCHANGED <<CRYPTO, nconn>>
    /\ UNCHANGED <<codecVars, frameVars, callVars, appVars>>

\* The listener is blocked in a read: nothing of the peer is left to read
\* and the peer has not closed.
BlockedInRead(l) ==
    spc[l] \in {"recv_hello", "recv_req"} /\ ~ServerCanRead(conn[l])

\* The peer of a listener blocked in a read closes, if it has not
\* delivered what the listener waits for before.
PeerFeeds(l) == BlockedInRead(l) /\ Hangup(l)

\* The server process with one of its listeners at accept: the thread of
\* serve_upload is started before serve() is called (main.py lines
\* 555-560), and a thread whose create_server raised has ended while the
\* other goes on.
LiveInit ==
    /\ CRYPTO = CryptoCtx(LargestKey, ServerMode)
    /\ \E on \in Listeners :
         spc = [l \in Listeners |-> IF l = on THEN "accept" ELSE "off"]
    /\ client_pub = [l \in Listeners |-> None]
    /\ conn = [l \in Listeners |-> NoConn]
    /\ nconn = [l \in Listeners |-> 0]

NextLive ==
    \/ Next
    \/ ServeLargeReply
    \/ PeerDrain
    \/ FinishReply
    \/ ReplyBroken

\* ------------------------------------------------- single calls: decode

CallOff == fn = "off" /\ arg = <<>> /\ ret = <<>>

\* No other part of the model moves during a single call.
CallOnly == UNCHANGED <<codecVars, frameVars, protoVars, appVars>>

\* The cipher block of a plaintext block as encrypt_bytes frames it (lines
\* 142-149).
CipherBlock(block, pub, mode) ==
    LET k      == _mod_bytes(pub.n)
        cbytes == to_bytes(rsa_encrypt_int(from_bytes(block), pub).val, k)
    IN  IF IsFixed(mode) THEN cbytes ELSE to_bytes(Len(cbytes), 2) \o cbytes

\* A plaintext block with the length field Lf, whatever the mode allows:
\* [len:2][fill ...] of plain_block bytes.
CraftedBlock(Lf, fill, plain_block) ==
    to_bytes(Lf, 2) \o [i \in 1 .. plain_block - 2 |-> fill]

\* The length fields of the crafted blocks: none, the cap of the mode, one
\* more, and the greatest two bytes hold.
CraftedLengths(plain_block, mode) ==
    {0, payload_cap(plain_block, mode), payload_cap(plain_block, mode) + 1,
     ByteBase * ByteBase - 1}

\* What a peer can do to a buffer: cut bytes off its end, add a byte, or
\* raise the first byte pair (the first prefix in the _len modes) by one.
Tampered(buf, how) ==
    CASE how = "cut1"  -> SubSeq(buf, 1, Len(buf) - 1)
      [] how = "cut3"  -> SubSeq(buf, 1, Len(buf) - 3)
      [] how = "cutk"  -> SubSeq(buf, 1, 1)
      [] how = "add1"  -> Append(buf, 1)
      [] how = "grow"  -> to_bytes(from_bytes(SubSeq(buf, 1, 2)) + 1, 2)
                          \o SubSeq(buf, 3, Len(buf))
      [] OTHER         -> buf

Tamperings == {"none", "cut1", "cut3", "cutk", "add1", "grow"}

\* The buffers decrypt_bytes is called with: one or two crafted blocks
\* encrypted under the key, then tampered with.
DecodeInputs ==
    UNION {
      {[key |-> kp, mode |-> mode,
        data |-> Tampered(CipherBlock(CraftedBlock(l1, f, _mod_bytes(kp.pub.n) - 1),
                                      kp.pub, mode)
                          \o (IF l2 < 0 THEN <<>>
                              ELSE CipherBlock(CraftedBlock(l2, f, _mod_bytes(kp.pub.n) - 1),
                                               kp.pub, mode)),
                          how)] :
         f \in {0, 1}, how \in Tamperings,
         l1 \in CraftedLengths(_mod_bytes(kp.pub.n) - 1, mode),
         l2 \in {-1, 1, ByteBase * ByteBase - 1}} :
      kp \in UsableKeys, mode \in Modes}

DecodeInit ==
    /\ fn = "decrypt_bytes"
    /\ arg \in DecodeInputs
    /\ ret = <<>>

DecryptBuffer ==
    /\ fn = "decrypt_bytes"
    /\ ret' = decrypt_bytes(arg.data, arg.key.priv, arg.mode)
    /\ fn' = "returned"
    /\ UNCHANGED arg
    /\ CallOnly

NextDecode == DecryptBuffer

\* ------------------------------------------- single calls: encode twice

\* The plaintexts encrypted twice under a key and a mode: empty, one byte,
\* a full chunk, a full chunk and a byte, MaxBlocks - 1 full chunks, and
\* one byte more; all bytes alike, so that full chunks are identical.
TwiceData(kp, mode) ==
    LET cap == payload_cap(_mod_bytes(kp.pub.n) - 1, mode)
    IN  {[i \in 1 .. L |-> b] :
           L \in {0, 1, cap, cap + 1, (MaxBlocks - 1) * cap, (MaxBlocks - 1) * cap + 1},
           b \in DataBytes}

\* What the random source yields during a call, whether or not the call
\* asks for it.
FirstDraws == {[i \in 1 .. MaxBlocks |-> 1],
               [i \in 1 .. MaxBlocks |-> 1 + (i % (ByteBase - 1))]}
SecondDraws == [1 .. MaxBlocks -> {1, ByteBase - 1}]

TwiceInit ==
    /\ fn = "encrypt_bytes"
    /\ arg \in UNION {
          {[key |-> kp, mode |-> mode, data |-> data, rng1 |-> r1, rng2 |-> r2] :
             data \in TwiceData(kp, mode), r1 \in FirstDraws, r2 \in SecondDraws} :
          kp \in UsableKeys, mode \in Modes}
    /\ ret = <<>>

\* Two calls of encrypt_bytes on the same data, key and mode.
EncryptTwice ==
    /\ fn = "encrypt_bytes"
    /\ ret' = [first  |-> encrypt_bytes(arg.data, arg.key.pub, arg.mode, arg.rng1),
               second |-> encrypt_bytes(arg.data, arg.key.pub, arg.mode, arg.rng2)]
    /\ fn' = "decrypt_bytes"
    /\ UNCHANGED arg
    /\ CallOnly

\* decrypt_bytes on what each call returned.
DecryptTwice ==
    /\ fn = "decrypt_bytes"
    /\ ret.first.ok /\ ret.second.ok
    /\ ret' = [first  |-> ret.first, second |-> ret.second,
               dec1 |-> decrypt_bytes(ret.first.out, arg.key.priv, arg.mode),
               dec2 |-> decrypt_bytes(ret.second.out, arg.key.priv, arg.mode)]
    /\ fn' = "returned"
    /\ UNCHANGED arg
    /\ CallOnly

NextTwice == EncryptTwice \/ DecryptTwice

\* --------------------------------------- single calls: generate_keypair

\* What gen_prime may return (lines 53-59; the model keeps the primes
\* small): three primes of one size and one that is 1 modulo the public
\* exponent, so that phi is a multiple of e.
PrimeDraws == {251, 257, 263, 14 * PublicExponent + 1}

\* generate_keypair going back to its loop for every candidate but p = q.
Retried_no_equal_test(p, q, e) == ((p - 1) * (q - 1)) % e = 0

\* The two `continue` of generate_keypair (lines 78-79, 82-83).
Retried(p, q, e) == p = q \/ ((p - 1) * (q - 1)) % e = 0

KeygenInit ==
    /\ fn = "generate_keypair"
    /\ arg = [e |-> PublicExponent, p |-> 0, q |-> 0, retried |-> <<>>]
    /\ ret = <<>>

\* One pass of `while True` (lines 76-85): two primes are drawn; the pass
\* ends in `continue` or in the return.
KeygenPass ==
    /\ fn = "generate_keypair"
    /\ Len(arg.retried) < MaxTries
    /\ \E p \in PrimeDraws, q \in PrimeDraws :
         IF Retried(p, q, arg.e)
         THEN /\ arg' = [arg EXCEPT !.retried = Append(@, <<p, q>>)]
              /\ UNCHANGED <<fn, ret>>
         ELSE /\ arg' = [arg EXCEPT !.p = p, !.q = q]
              /\ ret' = (IF modinv(arg.e, (p - 1) * (q - 1)).ok
                         THEN [ok |-> TRUE, val |-> KeyPairOf(p, q, arg.e)]
                         ELSE modinv(arg.e, (p - 1) * (q - 1)))
              /\ fn' = "returned"
    /\ CallOnly

NextKeygen == KeygenPass

\* ------------------------------------------- single calls: egcd, modinv

\* egcd(a, b) is called with non-negative a and b, modinv(a, m) with any a
\* and a positive m.
ArithInit ==
    /\ ret = <<>>
    /\ \/ fn = "egcd" /\ arg \in [a : 0 .. MaxArg, b : 0 .. MaxArg]
       \/ fn = "modinv" /\ arg \in [a : (0 - MaxArg) .. MaxArg, b : 1 .. MaxArg]

CallEgcd ==
    /\ fn = "egcd"
    /\ ret' = egcd(arg.a, arg.b)
    /\ fn' = "egcd returned"
    /\ UNCHANGED arg
    /\ CallOnly

CallModinv ==
    /\ fn = "modinv"
    /\ ret' = modinv(arg.a, arg.b)
    /\ fn' = "modinv returned"
    /\ UNCHANGED arg
    /\ CallOnly

NextArith == CallEgcd \/ CallModinv

\* ------------------------------------ single calls: the binary packet

\* What can happen to a packet between pack_pickle_bin and
\* unpack_pickle_bin (the sender is any program that knows the receiver's
\* public key): bytes cut off its end, or a length field raised by one.
Damages == {"none", "cut1", "cut_payload", "cut_length", "cut_header",
            "grow_hlen", "grow_blen"}

Damaged(packet, hlen, how) ==
    CASE how = "cut1"        -> SubSeq(packet, 1, Len(packet) - 1)
      [] how = "cut_payload" -> SubSeq(packet, 1, 4 + hlen + 4)
      [] how = "cut_length"  -> SubSeq(packet, 1, 4 + hlen + 2)
      [] how = "cut_header"  -> SubSeq(packet, 1, 4 + hlen - 1)
      [] how = "grow_hlen"   -> to_bytes(hlen + 1, 4) \o SubSeq(packet, 5, Len(packet))
      [] how = "grow_blen"   ->
           SubSeq(packet, 1, 4 + hlen)
           \o to_bytes(from_bytes(SubSeq(packet, 4 + hlen + 1, 4 + hlen + 4)) + 1, 4)
           \o SubSeq(packet, 4 + hlen + 5, Len(packet))
      [] OTHER               -> packet

BinInit ==
    /\ fn = "pack_pickle_bin"
    /\ arg \in [header : WireObjs, bin : SeqsUpTo(DataBytes, MaxBin),
                packet : {<<>>}, damage : {"none"}]
    /\ ret = <<>>

\* pack_pickle_bin(header_obj, bin_data)
PackBin ==
    /\ fn = "pack_pickle_bin"
    /\ LET r == pack_pickle_bin(arg.header, arg.bin)
       IN  /\ ret' = r
           /\ fn' = IF r.ok THEN "packed" ELSE "returned"
           /\ arg' = [arg EXCEPT !.packet = IF r.ok THEN r.val ELSE <<>>]
    /\ CallOnly

\* The packet reaches unpack_pickle_bin changed.
DamageBin ==
    /\ fn = "packed" /\ arg.damage = "none"
    /\ \E how \in Damages \ {"none"} :
         arg' = [arg EXCEPT !.damage = how,
                            !.packet = Damaged(@, Len(dumps(arg.header).val), how)]
    /\ UNCHANGED <<fn, ret>>
    /\ CallOnly

\* unpack_pickle_bin(packet)
UnpackBin ==
    /\ fn = "packed"
    /\ ret' = unpack_pickle_bin(arg.packet)
    /\ fn' = "returned"
    /\ UNCHANGED arg
    /\ CallOnly

NextBin == PackBin \/ DamageBin \/ UnpackBin

\* ------------------------------------ single calls: the files of an upload

\* The loop of _pack_multi_files: [len:4][bytes] for every buffer.
RECURSIVE PackLoop(_)
PackLoop(blobs) ==
    IF blobs = <<>> THEN <<>>
    ELSE to_bytes(Len(Head(blobs)), 4) \o Head(blobs) \o PackLoop(Tail(blobs))

\* _pack_multi_files without the count in front.
_pack_multi_files_no_count(blobs) == PackLoop(blobs)

\* _pack_multi_files(blobs): [count:4], then the buffers.
_pack_multi_files(blobs) == to_bytes(Len(blobs), 4) \o PackLoop(blobs)

\* The loop of _unpack_multi_files from offset off, count buffers to go.
RECURSIVE UnpackLoop(_, _, _)
UnpackLoop(blob, off, count) ==
    IF count = 0 THEN [ok |-> TRUE, out |-> <<>>]
    ELSE IF off + 4 > Len(blob) THEN Err("bad files blob")
    ELSE LET n == from_bytes(Slice(blob, off, 4))
         IN  IF off + 4 + n > Len(blob) THEN Err("bad files blob")
             ELSE LET rest == UnpackLoop(blob, off + 4 + n, count - 1)
                  IN  IF ~rest.ok THEN rest
                      ELSE [ok |-> TRUE,
                            out |-> <<Slice(blob, off + 4, n)>> \o rest.out]

\* _unpack_multi_files without the test of the blob's first four bytes.
_unpack_multi_files_no_short_test(blob) ==
    UnpackLoop(blob, 4, from_bytes(Slice(blob, 0, 4)))

\* _unpack_multi_files(blob)
_unpack_multi_files(blob) ==
    IF Len(blob) < 4 THEN Err("bad files blob")
    ELSE UnpackLoop(blob, 4, from_bytes(Slice(blob, 0, 4)))

MultiInit ==
    /\ fn = "_pack_multi_files"
    /\ arg \in [blobs : SeqsUpTo(SeqsUpTo(DataBytes, MaxFileLen), MaxFiles),
                packed : {<<>>}, damage : {"none"}]
    /\ ret = <<>>

PackMulti ==
    /\ fn = "_pack_multi_files"
    /\ arg' = [arg EXCEPT !.packed = _pack_multi_files(arg.blobs)]
    /\ fn' = "_unpack_multi_files"
    /\ UNCHANGED ret
    /\ CallOnly

\* Lengths a blob of the files blobs may be cut to before it is unpacked
\* (the blob is whatever the sender of the upload request put there):
\* under four bytes, the count alone, the last entry missing, cut inside
\* the last entry's length, cut inside the last entry's bytes.
CutLengths(blobs, packed) ==
    LET last == IF blobs = <<>> THEN 0 ELSE Len(blobs[Len(blobs)])
    IN  {k \in {3, 4, Len(packed) - last - 4, Len(packed) - last - 2,
                Len(packed) - 1} : k >= 0 /\ k < Len(packed)}

\* The blob reaches _unpack_multi_files cut short.
CutMulti ==
    /\ fn = "_unpack_multi_files" /\ arg.damage = "none"
    /\ \E k \in CutLengths(arg.blobs, arg.packed) :
         arg' = [arg EXCEPT !.damage = "cut", !.packed = SubSeq(@, 1, k)]
    /\ UNCHANGED <<fn, ret>>
    /\ CallOnly

\* The blob reaches _unpack_multi_files declaring one entry more than it has.
OvercountMulti ==
    /\ fn = "_unpack_multi_files" /\ arg.damage = "none"
    /\ arg' = [arg EXCEPT !.damage = "count",
                          !.packed = to_bytes(Len(arg.blobs) + 1, 4)
                                     \o SubSeq(@, 5, Len(@))]
    /\ UNCHANGED <<fn, ret>>
    /\ CallOnly

UnpackMulti ==
    /\ fn = "_unpack_multi_files"
    /\ ret' = _unpack_multi_files(arg.packed)
    /\ fn' = "returned"
    /\ UNCHANGED arg
    /\ CallOnly

NextMulti == PackMulti \/ CutMulti \/ OvercountMulti \/ UnpackMulti

\* ------------------------------------------------ the request handlers

\* Requests the server handles in all.
MaxReqs == 2

\* The token of a request: none, one jwt.decode refuses, one that has
\* expired, one issued to a user, one issued to an admin.
Tokens == {"", "garbage", "expired", "user", "admin"}

\* verify_token skipped: every token is taken for a user's.
verify_token_accept_all(token) ==
    [ok |-> TRUE, role |-> IF token = "admin" THEN "admin" ELSE "user"]

\* verify_token(token)  (auth_service.py lines 107-122)
verify_token(token) ==
    IF token = "" THEN Err("token required")
    ELSE IF token = "expired" THEN Err("token expired")
    ELSE IF token = "garbage" THEN Err("invalid token")
    ELSE [ok |-> TRUE, role |-> token]

\* The types handle knows that change data, and the others modelled.
WriteTypes == {"insert", "update", "delete", "create_table"}
ReadTypes == {"select", "backup_list"}
OpenTypes == {"ping", "login"}
UploadTypes == {"file_attach", "insert_with_files"}

\* The storage_mode of the file columns of an insert_with_files request,
\* one per file (files_service.py lines 63-77).
UploadFiles == {<<"blob">>, <<"fs">>, <<"fs", "fs">>}

Req(type, token, what) == [type |-> type, token |-> token, what |-> what]

NoReq == Req("", "", <<>>)

\* What a listener may receive: on PORT any type with any token (a login
\* carries good or bad credentials), on UPLOAD_PORT a header with any
\* token.
Requests(l) ==
    IF l = "main"
    THEN {Req("ping", "", <<>>)}
         \cup {Req("login", "", <<c>>) : c \in {"good", "bad"}}
         \cup {Req(t, k, <<>>) :
                 t \in WriteTypes \cup ReadTypes \cup {"backup_restore"}, k \in Tokens}
    ELSE {Req("file_attach", k, <<"fs">>) : k \in Tokens}
         \cup {Req("insert_with_files", k, f) : k \in Tokens, f \in UploadFiles}

\* {"ok": ..., "error": ...}; NoResp before the request is answered.
Resp(ok, error) == [ok |-> ok, error |-> error]
NoResp == Resp(FALSE, "no response yet")

\* The number of the request, created_paths and the row inserted (0: none).
Locals(id, created, row) == [id |-> id, created |-> created, row |-> row]

\* A row of a table: the request that wrote it and the paths it stores.
Row(id, paths) == [id |-> id, paths |-> paths]

AppOff ==
    /\ MAINTENANCE = FALSE
    /\ hpc = [l \in Listeners |-> "off"]
    /\ hreq = [l \in Listeners |-> NoReq]
    /\ hloc = [l \in Listeners |-> Locals(0, {}, 0)]
    /\ hresp = [l \in Listeners |-> NoResp]
    /\ db = {} /\ files = {} /\ audit = 0 /\ nreq = 0

\* MAINTENANCE = False (line 39); both listeners wait for a request.
AppInit ==
    /\ MAINTENANCE = FALSE
    /\ hpc = [l \in Listeners |-> "idle"]
    /\ hreq = [l \in Listeners |-> NoReq]
    /\ hloc = [l \in Listeners |-> Locals(0, {}, 0)]
    /\ hresp = [l \in Listeners |-> NoResp]
    /\ db = {} /\ files = {} /\ audit = 0 /\ nreq = 0

AppOnly == UNCHANGED <<codecVars, frameVars, protoVars, callVars>>

\* The handling of the request of l ends with response r: serve and
\* serve_upload send it and are back at accept.
Answer(l, r) ==
    /\ hresp' = [hresp EXCEPT ![l] = r]
    /\ hpc' = [hpc EXCEPT ![l] = "idle"]

\* recv_encrypted / recv_encrypted_bin returned a request (lines 367, 414).
Receive(l) ==
    /\ hpc[l] = "idle"
    /\ nreq < MaxReqs
    /\ \E r \in Requests(l) : hreq' = [hreq EXCEPT ![l] = r]
    /\ hpc' = [hpc EXCEPT ![l] = "handle"]
    /\ hloc' = [hloc EXCEPT ![l] = Locals(nreq + 1, {}, 0)]
    /\ hresp' = [hresp EXCEPT ![l] = NoResp]
    /\ nreq' = nreq + 1
    /\ UNCHANGED <<MAINTENANCE, db, files, audit>>
    /\ AppOnly

\* handle: ping and login, which need no token (lines 72-88).
HandleOpen ==
    /\ hpc["main"] = "handle"
    /\ hreq["main"].type \in OpenTypes
    /\ IF hreq["main"].type = "ping"
       THEN Answer("main", Resp(TRUE, "")) /\ UNCHANGED audit
       ELSE IF hreq["main"].what = <<"good">>
       THEN Answer("main", Resp(TRUE, "")) /\ audit' = audit + 1
       ELSE Answer("main", Resp(FALSE, "bad credentials")) /\ UNCHANGED audit
    /\ UNCHANGED <<MAINTENANCE, hreq, hloc, db, files, nreq>>
    /\ AppOnly

\* handle: the try of lines 91-111: verify_token, the maintenance test,
\* the audit entry of most types; any exception is the response.
HandleGate ==
    /\ hpc["main"] = "handle"
    /\ hreq["main"].type \notin OpenTypes
    /\ LET t == hreq["main"].type
           v == verify_token(hreq["main"].token)
       IN  IF ~v.ok THEN Answer("main", Resp(FALSE, v.err)) /\ UNCHANGED audit
           ELSE IF MAINTENANCE /\ t \notin {"backup_restore", "backup_list"}
           THEN Answer("main", Resp(FALSE, "server in maintenance mode"))
                /\ UNCHANGED audit
           ELSE IF t \in {"insert", "update", "delete", "file_get", "file_delete"}
           THEN /\ hpc' = [hpc EXCEPT !["main"] = "run"]
                /\ UNCHANGED <<hresp, audit>>
           ELSE \/ /\ hpc' = [hpc EXCEPT !["main"] = "run"]
                   /\ audit' = audit + 1
                   /\ UNCHANGED hresp
                \/ Answer("main", Resp(FALSE, "audit_log failed")) /\ UNCHANGED audit
    /\ UNCHANGED <<MAINTENANCE, hreq, hloc, db, files, nreq>>
    /\ AppOnly

\* handle past the gate (lines 113-348): a read, a write with its audit
\* entry, or the start of backup_restore (lines 254-261).  An exception
\* leaves handle and becomes the response of serve's except clause.
HandleRun ==
    /\ hpc["main"] = "run"
    /\ LET t    == hreq["main"].type
           role == verify_token(hreq["main"].token).role
       IN  CASE t \in WriteTypes ->
                  \/ /\ db' = db \cup {Row(hloc["main"].id, {})}
                     /\ \/ audit' = audit + (IF t = "create_table" THEN 0 ELSE 1)
                           /\ Answer("main", Resp(TRUE, ""))
                        \/ t # "create_table" /\ UNCHANGED audit
                           /\ Answer("main", Resp(FALSE, "audit_log failed"))
                     /\ UNCHANGED MAINTENANCE
                  \/ /\ Answer("main", Resp(FALSE, "database error"))
                     /\ UNCHANGED <<MAINTENANCE, db, audit>>
             [] t = "backup_restore" /\ role = "admin" ->
                  /\ MAINTENANCE' = TRUE
                  /\ hpc' = [hpc EXCEPT !["main"] = "restoring"]
                  /\ UNCHANGED <<hresp, db, audit>>
             [] t \in {"backup_restore", "backup_list"} /\ role # "admin" ->
                  /\ Answer("main", Resp(FALSE, "admin only"))
                  /\ UNCHANGED <<MAINTENANCE, db, audit>>
             [] OTHER ->
                  /\ \/ Answer("main", Resp(TRUE, ""))
                     \/ Answer("main", Resp(FALSE, "database error"))
                  /\ UNCHANGED <<MAINTENANCE, db, audit>>
    /\ UNCHANGED <<hreq, hloc, files, nreq>>
    /\ AppOnly

\* restore_backup and the finally of lines 262-265: it raises before it
\* touched anything, or replaces the database and the stored files by the
\* backup's (backup_service.py lines 64-121; the backup is the empty
\* installation); MAINTENANCE is False again either way.
Restore ==
    /\ hpc["main"] = "restoring"
    /\ \/ /\ Answer("main", Resp(FALSE, "backup not found"))
          /\ UNCHANGED <<db, files, audit>>
       \/ /\ db' = {} /\ files' = {}
          /\ \/ audit' = audit + 1 /\ Answer("main", Resp(TRUE, ""))
             \/ UNCHANGED audit /\ Answer("main", Resp(FALSE, "audit_log failed"))
    /\ MAINTENANCE' = FALSE
    /\ UNCHANGED <<hreq, hloc, nreq>>
    /\ AppOnly

\* serve_upload: verify_token of line 418 with nothing else before the
\* request is carried out; its ValueError is the response of the outer
\* except (lines 541-549).
UploadGate ==
    /\ hpc["upload"] = "handle"
    /\ LET v == verify_token(hreq["upload"].token)
       IN  IF ~v.ok THEN Answer("upload", Resp(FALSE, v.err))
           ELSE /\ hpc' = [hpc EXCEPT !["upload"] = "run"]
                /\ UNCHANGED hresp
    /\ UNCHANGED <<MAINTENANCE, hreq, hloc, db, files, audit, nreq>>
    /\ AppOnly

\* The path prepare_inline_file_value creates for file i of request id.
PathOf(id, i) == <<id, i>>

\* file_attach of lines 421-463: the audit entry, then file_attach of
\* files_service.py lines 82-149: the new file is written, the row's
\* column updated and the file it held unlinked; with no row the new file
\* is unlinked again and ValueError("row not found") is the response.
UploadAttach ==
    /\ hpc["upload"] = "run"
    /\ hreq["upload"].type = "file_attach"
    /\ LET new == PathOf(hloc["upload"].id, 1)
       IN  \/ /\ Answer("upload", Resp(FALSE, "audit_log failed"))
              /\ UNCHANGED <<db, files, audit, hloc>>
           \/ /\ audit' = audit + 1
              /\ IF db = {}
                 THEN /\ Answer("upload", Resp(FALSE, "row not found"))
                      /\ UNCHANGED <<db, files, hloc>>
                 ELSE \E r \in db :
                        \E old \in (IF r.paths = {} THEN {{}}
                                    ELSE {{q} : q \in r.paths}) :
                          /\ db' = (db \ {r})
                                   \cup {Row(r.id, (r.paths \ old) \cup {new})}
                          /\ files' = (files \ old) \cup {new}
                          /\ hloc' = [hloc EXCEPT !["upload"].created = {new}]
                          /\ Answer("upload", Resp(TRUE, ""))
    /\ UNCHANGED <<MAINTENANCE, hreq, nreq>>
    /\ AppOnly

\* The paths the loop of lines 493-510 has created once it handled the
\* files before file j: one for each file column stored in "fs" mode.
CreatedBefore(id, modes, j) ==
    {PathOf(id, i) : i \in {k \in 1..Len(modes) : k < j /\ modes[k] = "fs"}}

\* The except clause of lines 530-535 unlinks every created path.
\* Mutant: it keeps them when the row was inserted.
Cleanup_keep_committed(created) ==
    IF hloc["upload"].row # 0 THEN files ELSE files \ created

\* for p in created_paths: Path(p).unlink(missing_ok=True)  (lines 533-534)
Cleanup(created) == files \ created

\* insert_with_files, lines 490-510: every file is prepared, or
\* table_meta or the preparation of file j raises and the except clause
\* unlinks what was created and answers.
UploadPrepare ==
    /\ hpc["upload"] = "run"
    /\ hreq["upload"].type = "insert_with_files"
    /\ LET id    == hloc["upload"].id
           modes == hreq["upload"].what
       IN  \/ /\ files' = files \cup CreatedBefore(id, modes, Len(modes) + 1)
              /\ hloc' = [hloc EXCEPT !["upload"].created =
                                        CreatedBefore(id, modes, Len(modes) + 1)]
              /\ hpc' = [hpc EXCEPT !["upload"] = "insert"]
              /\ UNCHANGED hresp
           \/ \E j \in 1..Len(modes) :
                /\ files' = Cleanup(CreatedBefore(id, modes, j))
                /\ hloc' = [hloc EXCEPT !["upload"].created =
                                          CreatedBefore(id, modes, j)]
                /\ Answer("upload", Resp(FALSE, "bad file descriptor"))
    /\ UNCHANGED <<MAINTENANCE, hreq, db, audit, nreq>>
    /\ AppOnly

\* insert_row of line 512: the row is committed when it returns
\* (crud_dynamic.py lines 76-93, db.py get_conn), or it raises.
UploadInsert ==
    /\ hpc["upload"] = "insert"
    /\ \/ /\ db' = db \cup {Row(hloc["upload"].id, hloc["upload"].created)}
          /\ hloc' = [hloc EXCEPT !["upload"].row = hloc["upload"].id]
          /\ hpc' = [hpc EXCEPT !["upload"] = "audit"]
          /\ UNCHANGED <<hresp, files>>
       \/ /\ files' = Cleanup(hloc["upload"].created)
          /\ Answer("upload", Resp(FALSE, "database error"))
          /\ UNCHANGED <<db, hloc>>
    /\ UNCHANGED <<MAINTENANCE, hreq, audit, nreq>>
    /\ AppOnly

\* audit_log of lines 514-526, inside the same try.
UploadAudit ==
    /\ hpc["upload"] = "audit"
    /\ \/ /\ audit' = audit + 1
          /\ hpc' = [hpc EXCEPT !["upload"] = "send"]
          /\ UNCHANGED <<hresp, files>>
       \/ /\ files' = Cleanup(hloc["upload"].created)
          /\ Answer("upload", Resp(FALSE, "audit_log failed"))
          /\ UNCHANGED audit
    /\ UNCHANGED <<MAINTENANCE, hreq, hloc, db, nreq>>
    /\ AppOnly

\* send_encrypted of line 528, inside the same try: the peer may be gone.
UploadSend ==
    /\ hpc["upload"] = "send"
    /\ \/ /\ Answer("upload", Resp(TRUE, ""))
          /\ UNCHANGED files
       \/ /\ files' = Cleanup(hloc["upload"].created)
          /\ Answer("upload", Resp(FALSE, "connection reset"))
    /\ UNCHANGED <<MAINTENANCE, hreq, hloc, db, audit, nreq>>
    /\ AppOnly

NextApp ==
    \/ \E l \in Listeners : Receive(l)
    \/ HandleOpen
    \/ HandleGate
    \/ HandleRun
    \/ Restore
    \/ UploadGate
    \/ UploadAttach
    \/ UploadPrepare
    \/ UploadInsert
    \/ UploadAudit
    \/ UploadSend

\* ------------------------------------------- single calls: primality

\* is_probable_prime(n, k) is called with k = MaxRounds rounds and every n
\* up to MaxPrimeArg, some larger primes, and the smallest composites that
\* no listed prime divides.
MaxRounds == 2
MaxPrimeArg == 48

PrimeArgs ==
    ((0 - 2) .. MaxPrimeArg) \cup {53, 59, 61} \cup {41 * 41, 41 * 43, 43 * 43}

\* small_primes  (rsa_block.py line 24)
small_primes == <<2, 3, 5, 7, 11, 13, 17, 19, 23, 29, 31, 37>>

\* Lines 22-29: "False" for n < 2, then for each listed prime in turn
\* "True" if n is it and "False" if it divides n; "rounds" when the loop
\* ends with no answer.
RECURSIVE TrialDivide(_, _)
TrialDivide(n, i) ==
    IF i > Len(small_primes) THEN "rounds"
    ELSE IF n = small_primes[i] THEN "True"
    ELSE IF n % small_primes[i] = 0 THEN "False"
    ELSE TrialDivide(n, i + 1)

FastPath(n) == IF n < 2 THEN "False" ELSE TrialDivide(n, 1)

\* Lines 31-35: n - 1 = d * 2^s with d odd.
RECURSIVE OddPart(_)
OddPart(d) == IF d % 2 = 0 THEN OddPart(d \div 2) ELSE d

RECURSIVE TwoPower(_)
TwoPower(d) == IF d % 2 = 0 THEN TwoPower(d \div 2) + 1 ELSE 0

\* The loop of lines 41-44: up to `left` squarings of x.
RECURSIVE Squarings(_, _, _)
Squarings(x, n, left) ==
    IF left = 0 THEN FALSE
    ELSE LET y == (x * x) % n
         IN  IF y = n - 1 THEN TRUE ELSE Squarings(y, n, left - 1)

\* check without the squarings: only a^d is looked at.
check_no_squarings(a, n) ==
    LET x == ModExp(a, OddPart(n - 1), n)
    IN  x = 1 \/ x = n - 1

\* check(a)  (lines 37-45)
check(a, n) ==
    LET x == ModExp(a, OddPart(n - 1), n)
    IN  IF x = 1 \/ x = n - 1 THEN TRUE
        ELSE Squarings(x, n, TwoPower(n - 1) - 1)

\* secrets.randbelow(m): any of 0 .. m - 1.
randbelow(m) == 0 .. (m - 1)

PrimeInit ==
    /\ fn = "is_probable_prime"
    /\ arg \in [n : PrimeArgs, k : {MaxRounds}, i : {0}, a : {0}]
    /\ ret = <<>>

\* Lines 22-29 answer.
PrimeFast ==
    /\ fn = "is_probable_prime"
    /\ arg.i = 0
    /\ FastPath(arg.n) # "rounds"
    /\ ret' = <<FastPath(arg.n) = "True">>
    /\ fn' = "is_probable_prime returned"
    /\ UNCHANGED arg
    /\ CallOnly

\* One pass of the loop of lines 47-50: a base is drawn and checked.
PrimeRound ==
    /\ fn = "is_probable_prime"
    /\ FastPath(arg.n) = "rounds"
    /\ arg.i < arg.k
    /\ \E r \in randbelow(arg.n - 3) :
         LET a == r + 2
         IN  /\ arg' = [arg EXCEPT !.i = arg.i + 1, !.a = a]
             /\ IF check(a, arg.n)
                THEN UNCHANGED <<fn, ret>>
                ELSE ret' = <<FALSE>> /\ fn' = "is_probable_prime returned"
    /\ CallOnly

\* Line 51: every round passed.
PrimeDone ==
    /\ fn = "is_probable_prime"
    /\ FastPath(arg.n) = "rounds"
    /\ arg.i = arg.k
    /\ ret' = <<TRUE>>
    /\ fn' = "is_probable_prime returned"
    /\ UNCHANGED arg
    /\ CallOnly

NextPrime == PrimeFast \/ PrimeRound \/ PrimeDone

\* --------------------------------------------------- the specifications

vars == <<codecVars, frameVars, protoVars, callVars, appVars>>

InitCodec == CodecInit /\ FrameOff /\ ProtoOff /\ CallOff /\ AppOff

InitFrame == FrameInit /\ CodecOff /\ ProtoOff /\ CallOff /\ AppOff

Init == ProtoInit /\ CodecOff /\ FrameOff /\ CallOff /\ AppOff

SpecCodec == InitCodec /\ [][NextCodec]_vars

SpecFrame == InitFrame /\ [][NextFrame]_vars

Spec == Init /\ [][Next]_vars

\* The threads of serve and serve_upload are scheduled fairly, and no
\* listener stays blocked in a read for ever: its peer delivers what it
\* waits for (ClientHello, RawFirst, ClientRequest) or closes.
LiveFairness ==
    /\ \A l \in Listeners : WF_vars(ServeHello(l))
    /\ WF_vars(ServeRequest \/ ServeLargeReply)
    /\ WF_vars(ServeUpload)
    /\ WF_vars(FinishReply)
    /\ WF_vars(ReplyBroken)
    /\ \A l \in Listeners : WF_vars(PeerFeeds(l))

InitLive == LiveInit /\ CodecOff /\ FrameOff /\ CallOff /\ AppOff

SpecLive == InitLive /\ [][NextLive]_vars /\ LiveFairness

InitApp == AppInit /\ CodecOff /\ FrameOff /\ ProtoOff /\ CallOff
SpecApp == InitApp /\ [][NextApp]_vars

InitPrime == PrimeInit /\ CodecOff /\ FrameOff /\ ProtoOff /\ AppOff
SpecPrime == InitPrime /\ [][NextPrime]_vars

InitDecode == DecodeInit /\ CodecOff /\ FrameOff /\ ProtoOff /\ AppOff

SpecDecode == InitDecode /\ [][NextDecode]_vars

InitTwice == TwiceInit /\ CodecOff /\ FrameOff /\ ProtoOff /\ AppOff

SpecTwice == InitTwice /\ [][NextTwice]_vars

InitKeygen == KeygenInit /\ CodecOff /\ FrameOff /\ ProtoOff /\ AppOff

SpecKeygen == InitKeygen /\ [][NextKeygen]_vars

InitArith == ArithInit /\ CodecOff /\ FrameOff /\ ProtoOff /\ AppOff

SpecArith == InitArith /\ [][NextArith]_vars

InitBin == BinInit /\ CodecOff /\ FrameOff /\ ProtoOff /\ AppOff

SpecBin == InitBin /\ [][NextBin]_vars

InitMulti == MultiInit /\ CodecOff /\ FrameOff /\ ProtoOff /\ AppOff

SpecMulti == InitMulti /\ [][NextMulti]_vars

\* ------------------------------------------------------------ the claims

\* C1: whenever the key has plain_block >= 8 and the mode is one of the
\* four, encrypt_bytes succeeds and decrypt_bytes of its output, under the
\* matching private key and the same mode, returns exactly the data, for
\* every data (empty, with leading zero bytes) and every nonce drawn.
CodecRoundTrip ==
    /\ cpc = "decrypted" => (cdec.ok /\ cdec.out = cdata)
    /\ cpc = "failed" =>
         (_mod_bytes(ckey.pub.n) - 1 < MinPlainBlock \/ cmode \notin Modes)

\* A two-block plaintext whose chunks begin with zero bytes came back.
CodecRoundTripWitness ==
    /\ cpc = "decrypted"
    /\ IsRand(cmode)
    /\ cenc.nblocks = 2
    /\ Len(cdata) = MaxLen
    /\ cdata[1] = 0 /\ cdata[MaxLen] = 0
    /\ cdec.ok /\ cdec.out = cdata

\* C10 as the specification states it: encrypt_bytes of the empty string
\* returns exactly one cipher block.
EmptyInputOneBlock ==
    (cpc \in {"encrypted", "decrypted"} /\ cdata = <<>>) => cenc.nblocks = 1

\* C10 as the code has it: encrypt_bytes of the empty string succeeds (for
\* a usable key and mode) with no block at all, its output is the empty
\* string, and decrypt_bytes turns that back into the empty string.
EmptyInputNoBlock ==
    /\ (cpc \in {"encrypted", "decrypted"} /\ cdata = <<>>) =>
          (cenc.nblocks = 0 /\ cenc.out = <<>> /\ cenc.plains = <<>>)
    /\ (cpc = "decrypted" /\ cdata = <<>>) => (cdec.ok /\ cdec.out = <<>>)

EmptyInputWitness ==
    cpc = "decrypted" /\ cdata = <<>> /\ cenc.ok /\ cmode = "rand_len"

\* The frames of a byte string read in one piece: each is 4 bytes of
\* length and that many bytes of payload; not ok when bytes are left over
\* that make no whole frame.
RECURSIVE ParseFrames(_)
ParseFrames(bytes) ==
    IF bytes = <<>> THEN [ok |-> TRUE, payloads |-> <<>>]
    ELSE IF Len(bytes) < 4 THEN [ok |-> FALSE, payloads |-> <<>>]
    ELSE LET n == from_bytes(SubSeq(bytes, 1, 4))
         IN  IF Len(bytes) < 4 + n THEN [ok |-> FALSE, payloads |-> <<>>]
             ELSE LET rest == ParseFrames(SubSeq(bytes, 5 + n, Len(bytes)))
                  IN  [ok |-> rest.ok,
                       payloads |-> <<SubSeq(bytes, 5, 4 + n)>> \o rest.payloads]

RECURSIVE FramesSize(_, _)
FramesSize(payloads, count) ==
    IF count = 0 THEN 0
    ELSE FramesSize(payloads, count - 1) + 4 + Len(payloads[count])

\* C8: however the transport splits the stream, every finished recv call
\* has returned the payload (and the message decoded from it) of the next
\* frame of the stream as read in one piece; the receiver has taken exactly
\* the bytes of the frames returned plus what the call in progress has
\* read of its own frame, never a byte past that frame; and a call fails
\* only at end of file, before the 4 + declared bytes of its frame were
\* read, adding no message.
FrameReading ==
    LET P    == ParseFrames(stream).payloads
        done == Len(rres)
        base == FramesSize(P, done)
    IN  /\ done <= Len(P)
        /\ \A i \in 1 .. done :
              /\ rres[i].payload = P[i]
              /\ rres[i].msg = Decoded(OkSends[i].kind, P[i], fkey.priv, fmode)
        /\ rpc = "idle" => rpos = base
        /\ rpc = "header" =>
              rstart = base /\ rpos = base + Len(rdata) /\ Len(rdata) < 4
        /\ rpc = "payload" =>
              /\ rstart = base /\ rpos = base + 4 + Len(rdata)
              /\ done < Len(P) /\ rneed = Len(P[done + 1]) /\ Len(rdata) < rneed
        /\ rpc = "failed" =>
              /\ eof /\ rstart = base /\ Len(rdata) < rneed
              /\ rpos = base + (IF rneed = 4 /\ rpos - base < 4 THEN 0 ELSE 4) + Len(rdata)
              /\ done < Len(P) => rpos < base + 4 + Len(P[done + 1])

\* An encrypted frame was returned whole and decoded; the peer closed while
\* the payload of the second frame was partly read, and that call failed.
FrameReadingWitness ==
    /\ Len(rres) = 1 /\ rres[1].msg.ok /\ OkSends[1].kind = "enc"
    /\ rpc = "failed" /\ rneed > 4 /\ Len(rdata) > 0
    /\ rpos > rstart + 4

\* C9: the connection always holds whole frames only: read in one piece,
\* the bytes written are exactly the frames of the send calls that
\* returned, each prefix being the length of the payload that follows it;
\* a call that raised (in the serializer or in encrypt_bytes) added no byte.
NoPartialFrame ==
    LET P == ParseFrames(stream)
    IN  /\ P.ok
        /\ P.payloads = [i \in 1 .. Len(OkSends) |-> OkSends[i].payload]
        /\ \A i \in 1 .. Len(P.payloads) :
              SubSeq(stream, FramesSize(P.payloads, i - 1) + 1,
                     FramesSize(P.payloads, i - 1) + 4)
                = to_bytes(Len(P.payloads[i]), 4)

\* A frame was sent, then a send_encrypted call raised in encrypt_bytes.
NoPartialFrameWitness ==
    /\ Len(sends) = 2
    /\ sends[1].ok /\ sends[1].kind = "msg"
    /\ ~sends[2].ok /\ sends[2].kind = "enc" /\ sends[2].err = "RSA modulus too small"
    /\ stream = to_bytes(Len(sends[1].payload), 4) \o sends[1].payload

\* The hello (from "c") or hello_ack (from "s") frame f carries `key`.
CarriesKey(f, from, key) ==
    /\ f.from = from /\ ~f.enc
    /\ f.body.type = (IF from = "c" THEN "hello" ELSE "hello_ack")
    /\ f.body.pub # None
    /\ pub_from_json(f.body.pub[1]) = [ok |-> TRUE, val |-> key]

\* hello 1, hello_ack (or a plaintext error) 2, encrypted request 3,
\* encrypted reply 4.
FrameRank(f) ==
    IF f.from = "c" THEN (IF f.enc THEN 3 ELSE 1) ELSE (IF f.enc THEN 4 ELSE 2)

\* C2: on every connection an encrypted frame follows a frame of the other
\* end, already read by its sender, that carries the key it is encrypted
\* under: a hello_ack for the initiator's request, the hello of this very
\* connection for the accepting side's reply; the listener's client_pub is
\* None or the key of the hello of its current connection, never one of an
\* earlier connection; and the frames of a connection come in the order
\* hello, hello_ack, encrypted request, encrypted reply.
KeyedFrames ==
    \A l \in Listeners :
      LET c == conn[l]
          F == c.frames
      IN  /\ \A i \in 1 .. Len(F) :
                F[i].enc =>
                  /\ \E j \in 1 .. (i - 1) :
                        CarriesKey(F[j], IF F[i].from = "s" THEN "c" ELSE "s",
                                   F[i].key[1])
                  /\ (IF F[i].from = "s" THEN c.srvRead ELSE c.cliRead) >= 1
          /\ client_pub[l] # None =>
                \E j \in 1 .. Len(F) : CarriesKey(F[j], "c", client_pub[l][1])
          /\ \A i, j \in 1 .. Len(F) : i < j => FrameRank(F[i]) < FrameRank(F[j])

\* The second connection of the main listener went through hello,
\* hello_ack, encrypted request and encrypted reply.
KeyedFramesWitness ==
    LET c == conn["main"]
    IN  /\ c.id = 2 /\ c.peer.op = "call" /\ Len(c.frames) = 4
        /\ c.frames[3].enc /\ c.frames[3].key = Some(CRYPTO.pub)
        /\ c.frames[4].enc /\ c.frames[4].key = Some(ClientCtx(c.peer.who).pub)
        /\ c.cres = "returned"

\* C3: on either listener, once the accepting side has read a first frame
\* that is a plaintext message of a type other than "hello", all it ever
\* writes is the plaintext frame {ok: false, error: "expected hello"}: no
\* hello_ack, no key learned, no further read, no request step, and the
\* connection is closed with the listener back at accept.
HelloRejection ==
    \A l \in Listeners :
      LET c == conn[l]
          first == FramesFrom(c, "c")[1]
      IN  (c.srvRead >= 1 /\ ~first.enc /\ first.body.type # "hello") =>
            /\ FramesFrom(c, "s")
                 = <<Frame("s", FALSE, "json", None, "", ErrorMsg("expected hello"))>>
            /\ c.srvRead = 1 /\ c.reqsRead = 0 /\ c.served = 0
            /\ client_pub[l] = None
            /\ ~c.open /\ spc[l] = "accept"

\* The upload listener has refused a {type: "ping"} that even carried a key.
HelloRejectionWitness ==
    LET c == conn["upload"]
    IN  /\ c.peer = Peer("raw", "", "ping_pub") /\ c.srvRead = 1
        /\ Len(c.frames) = 2 /\ c.frames[2].body.error = "expected hello"

EncryptedReplies(c) == SelectSeq(c.frames, LAMBDA f : f.from = "s" /\ f.enc)

\* C4: on every connection whose encrypted request frame the accepting
\* side has read, it has written exactly one encrypted frame by the time
\* the connection is closed, and never more than one.
ExactlyOneReply ==
    \A l \in Listeners :
      LET c == conn[l]
      IN  c.reqsRead >= 1 =>
            /\ Len(EncryptedReplies(c)) <= 1
            /\ ~c.open => Len(EncryptedReplies(c)) = 1

\* C5: every exception caught while a connection is handled became the
\* message {ok: false, error: <message>} on that connection, sent as an
\* encrypted frame when client_pub was known and as a plaintext frame when
\* it was not; the connection is closed and the listener is back at accept.
ErrorConversion ==
    \A l \in Listeners :
      LET c == conn[l]
      IN  /\ \A i \in 1 .. Len(c.excs) :
                /\ c.excs[i].how = (IF c.excs[i].keyKnown THEN "enc" ELSE "plain")
                /\ \E j \in 1 .. Len(c.frames) :
                      /\ c.frames[j].from = "s"
                      /\ c.frames[j].enc = c.excs[i].keyKnown
                      /\ c.frames[j].body = ErrorMsg(c.excs[i].err)
          /\ c.excs # <<>> => (~c.open /\ spc[l] = "accept")

\* The state of the connection a listener accepted last.
ConnState(l) ==
    IF conn[l].id = 0 THEN "None"
    ELSE IF ~conn[l].open THEN "Closed"
    ELSE IF spc[l] = "recv_hello" THEN "AwaitingHello"
    ELSE IF spc[l] = "recv_req" THEN "AwaitingPayload"
    ELSE "Stray"

ConnStateInv ==
    \A l \in Listeners :
      LET c == conn[l]
      IN  /\ ConnState(l) # "Stray"
          /\ c.reqsRead <= 1 /\ c.served <= 1
          /\ (c.served >= 1 \/ c.excs # <<>>) => ~c.open
          /\ spc[l] = "accept" => ~c.open

ConnStateStep ==
    \A l \in Listeners :
      IF conn'[l].id # conn[l].id
      THEN ConnState(l) \in {"None", "Closed"} /\ ConnState(l)' = "AwaitingHello"
      ELSE \/ ConnState(l)' = ConnState(l)
           \/ <<ConnState(l), ConnState(l)'>> \in
                {<<"AwaitingHello", "AwaitingPayload">>,
                 <<"AwaitingPayload", "Closed">>,
                 <<"AwaitingHello", "Closed">>}

\* C6: a connection of the accepting side only moves AwaitingHello ->
\* AwaitingPayload -> Closed, or AwaitingHello -> Closed; at most one
\* encrypted request is read on it and the request step runs at most once;
\* it is closed once that step is over or an exception was caught; and a
\* listener accepts only when its last connection is closed.
ConnectionStateMachine == []ConnStateInv /\ [][ConnStateStep]_vars

\* The second connection of the main listener is closed after its request
\* was read and answered.
ConnectionStateMachineWitness ==
    LET c == conn["main"]
    IN  /\ c.id = 2 /\ c.peer.op = "file_get" /\ ~c.open
        /\ c.reqsRead = 1 /\ c.served = 1 /\ Len(EncryptedReplies(c)) = 1
        /\ c.excs = <<>>

\* The private exponents of the processes.
PrivateExponents ==
    {CRYPTO.priv.d} \cup
    {ClientCtx(who).priv.d : who \in {"same_mode", "other_mode", "small_key"}}

\* C7: a frame that carries key material is a plaintext hello_ack of the
\* accepting side or a plaintext hello of a client, what it carries is the
\* sender's public pair (n as its decimal string, e), and no private
\* exponent is in any frame.
NoPrivateKeyOnWire ==
    \A l \in Listeners :
      LET c == conn[l]
      IN  \A i \in 1 .. Len(c.frames) :
            LET f == c.frames[i]
            IN  f.body.pub # None =>
                  /\ ~f.enc
                  /\ f.from = "s" =>
                       /\ f.body.type = "hello_ack"
                       /\ f.body.pub[1] = [n |-> str(CRYPTO.pub.n), e |-> CRYPTO.pub.e]
                  /\ (f.from = "c" /\ c.peer.kind = "client") =>
                       /\ f.body.type = "hello"
                       /\ f.body.pub[1] = [n |-> str(ClientCtx(c.peer.who).pub.n),
                                           e |-> ClientCtx(c.peer.who).pub.e]
                  /\ \A d \in PrivateExponents :
                       f.body.pub[1].e # d /\ f.body.pub[1].n # str(d)

\* An upload connection carried a hello, a hello_ack and both encrypted
\* frames.
NoPrivateKeyOnWireWitness ==
    LET c == conn["upload"]
    IN  /\ c.peer = Peer("client", "same_mode", "file_attach")
        /\ Len(c.frames) = 4
        /\ c.frames[1].body.type = "hello" /\ c.frames[2].body.type = "hello_ack"
        /\ c.frames[4].enc

\* C11: non-empty data of length L gives ceil(L / cap) blocks, with cap =
\* plain_block - 2 in the raw modes and plain_block - 3 in the randomized
\* ones: one block for exactly cap bytes, two for cap + 1, the second with
\* a length field of 1; the output is nblocks * k bytes in the _fixed modes
\* and nblocks * (k + 2) in the _len modes, each block of k bytes preceded
\* there by a 2-byte prefix equal to k.
BlockSizing ==
    (cpc \in {"encrypted", "decrypted"} /\ cdata # <<>>) =>
      LET k   == _mod_bytes(ckey.pub.n)
          cap == IF cmode \in {"raw_fixed", "raw_len"} THEN k - 1 - 2 ELSE k - 1 - 3
          L   == Len(cdata)
          nb  == (L + cap - 1) \div cap
      IN  /\ cenc.nblocks = nb /\ Len(cenc.plains) = nb
          /\ L = cap => cenc.nblocks = 1
          /\ L = cap + 1 =>
               (cenc.nblocks = 2 /\ SubSeq(cenc.plains[2], 1, 2) = to_bytes(1, 2))
          /\ \A j \in 1 .. nb :
               /\ Len(cenc.plains[j]) = k - 1
               /\ from_bytes(SubSeq(cenc.plains[j], 1, 2))
                    = (IF j < nb THEN cap ELSE L - (nb - 1) * cap)
          /\ IF cmode \in {"raw_fixed", "rand_fixed"}
             THEN Len(cenc.out) = nb * k
             ELSE /\ Len(cenc.out) = nb * (k + 2)
                  /\ \A j \in 1 .. nb :
                       SubSeq(cenc.out, (j - 1) * (k + 2) + 1, (j - 1) * (k + 2) + 2)
                         = to_bytes(k, 2)

\* payload_cap + 1 bytes went into two blocks in a randomized _len mode.
BlockSizingWitness ==
    /\ cpc = "encrypted" /\ cmode = "rand_len"
    /\ Len(cdata) = _mod_bytes(ckey.pub.n) - 1 - 3 + 1
    /\ cenc.nblocks = 2

\* Walking a length-prefixed buffer from pos: a 2-byte prefix is cut short
\* or declares more bytes than are left.
RECURSIVE PrefixOverrun(_, _)
PrefixOverrun(data, pos) ==
    IF pos >= Len(data) THEN FALSE
    ELSE IF Len(data) - pos < 2 THEN TRUE
    ELSE LET blen == from_bytes(SubSeq(data, pos + 1, pos + 2))
         IN  IF blen > Len(data) - pos - 2 THEN TRUE
             ELSE PrefixOverrun(data, pos + 2 + blen)

\* The cipher blocks of a buffer that is well laid out for the mode.
RECURSIVE BlocksOf(_, _, _)
BlocksOf(data, k, fixed) ==
    IF data = <<>> THEN <<>>
    ELSE IF fixed THEN <<SubSeq(data, 1, k)>> \o BlocksOf(SubSeq(data, k + 1, Len(data)), k, fixed)
    ELSE LET blen == from_bytes(SubSeq(data, 1, 2))
         IN  <<SubSeq(data, 3, 2 + blen)>>
             \o BlocksOf(SubSeq(data, 3 + blen, Len(data)), k, fixed)

\* The length field of the plaintext a cipher block decrypts to (-1 when
\* the block decrypts to no plaintext block at all).
LengthField(block, priv) ==
    LET m == rsa_decrypt_int(from_bytes(block), priv)
    IN  IF ~m.ok \/ ~Fits(m.val, _mod_bytes(priv.n) - 1) THEN -1
        ELSE from_bytes(SubSeq(to_bytes(m.val, _mod_bytes(priv.n) - 1), 1, 2))

\* C12: decrypt_bytes raises, returning no bytes, (a) in the _fixed modes
\* on a buffer whose length is no multiple of k, (b) in the _len modes on a
\* buffer with a block prefix cut short or declaring more than is left,
\* (c) on a well laid out buffer with a block whose decrypted length field
\* is above the payload cap of the mode.
DecodeRejects ==
    fn = "returned" =>
      LET k     == _mod_bytes(arg.key.priv.n)
          fixed == arg.mode \in {"raw_fixed", "rand_fixed"}
          cap   == IF arg.mode \in {"raw_fixed", "raw_len"} THEN k - 1 - 2 ELSE k - 1 - 3
          badlayout == IF fixed THEN Len(arg.data) % k # 0
                       ELSE PrefixOverrun(arg.data, 0)
      IN  /\ badlayout => ~ret.ok
          /\ (~badlayout /\ \E j \in 1 .. Len(BlocksOf(arg.data, k, fixed)) :
                 LengthField(BlocksOf(arg.data, k, fixed)[j], arg.key.priv) > cap)
               => ~ret.ok
          /\ ~ret.ok => DOMAIN ret = {"ok", "err"}

\* A well laid out buffer of two blocks, the second with the greatest
\* length field, was refused for that field.
DecodeRejectsWitness ==
    /\ fn = "returned" /\ ~ret.ok
    /\ arg.mode = "rand_len"
    /\ ~PrefixOverrun(arg.data, 0)
    /\ Len(BlocksOf(arg.data, _mod_bytes(arg.key.priv.n), FALSE)) = 2
    /\ LengthField(BlocksOf(arg.data, _mod_bytes(arg.key.priv.n), FALSE)[1], arg.key.priv) = 0
    /\ LengthField(BlocksOf(arg.data, _mod_bytes(arg.key.priv.n), FALSE)[2], arg.key.priv)
         = ByteBase * ByteBase - 1
    /\ ret.err = "bad plaintext length"

\* Chunk j of the data and cipher block j of an output, for k-byte blocks
\* and chunks of cap bytes.
ChunkAt(data, j, cap) ==
    SubSeq(data, (j - 1) * cap + 1, IF j * cap > Len(data) THEN Len(data) ELSE j * cap)

CipherAt(out, j, k, fixed) ==
    IF fixed THEN SubSeq(out, (j - 1) * k + 1, j * k)
    ELSE SubSeq(out, (j - 1) * (k + 2) + 3, j * (k + 2))

\* C13: in raw_fixed and raw_len two calls of encrypt_bytes on the same
\* data and key return the same bytes whatever the random source holds,
\* and equal chunks of the data give equal cipher blocks.
RawDeterminism ==
    (fn \in {"decrypt_bytes", "returned"} /\ arg.mode \in {"raw_fixed", "raw_len"}) =>
      LET k   == _mod_bytes(arg.key.pub.n)
          cap == k - 1 - 2
          nb  == ret.first.nblocks
      IN  /\ ret.first.ok /\ ret.second.ok
          /\ ret.first.out = ret.second.out
          /\ \A i, j \in 1 .. nb :
               ChunkAt(arg.data, i, cap) = ChunkAt(arg.data, j, cap) =>
                 CipherAt(ret.first.out, i, k, arg.mode = "raw_fixed")
                   = CipherAt(ret.second.out, j, k, arg.mode = "raw_fixed")

\* Three blocks in raw_len under two different states of the random
\* source: the two full chunks gave the same block, the last chunk another.
RawDeterminismWitness ==
    /\ fn = "returned" /\ arg.mode = "raw_len" /\ arg.rng1 # arg.rng2
    /\ ret.first.nblocks = 3
    /\ LET k == _mod_bytes(arg.key.pub.n)
       IN  /\ CipherAt(ret.first.out, 1, k, FALSE) = CipherAt(ret.first.out, 2, k, FALSE)
           /\ CipherAt(ret.first.out, 1, k, FALSE) # CipherAt(ret.first.out, 3, k, FALSE)

\* C14: in rand_fixed and rand_len each plaintext block holds, after its
\* 2-byte length, the nonce drawn for it, which is never 0; two calls on
\* the same non-empty data that drew different nonces for some block return
\* different bytes; and both outputs decrypt to the data.
RandomizedNonces ==
    (fn \in {"decrypt_bytes", "returned"} /\ arg.mode \in {"rand_fixed", "rand_len"}) =>
      LET nb == ret.first.nblocks
      IN  /\ ret.first.ok /\ ret.second.ok /\ ret.second.nblocks = nb
          /\ \A j \in 1 .. nb :
               /\ ret.first.plains[j][3] = arg.rng1[j]
               /\ ret.second.plains[j][3] = arg.rng2[j]
               /\ ret.first.plains[j][3] \in 1 .. (ByteBase - 1)
               /\ ret.second.plains[j][3] \in 1 .. (ByteBase - 1)
          /\ (\E j \in 1 .. nb : arg.rng1[j] # arg.rng2[j]) =>
               ret.first.out # ret.second.out
          /\ fn = "returned" =>
               /\ ret.dec1 = [ok |-> TRUE, out |-> arg.data]
               /\ ret.dec2 = [ok |-> TRUE, out |-> arg.data]

\* Two calls in rand_fixed whose nonces differ in the last of three blocks
\* only: the outputs differ and decrypt alike.
RandomizedNoncesWitness ==
    /\ fn = "returned" /\ arg.mode = "rand_fixed"
    /\ ret.first.nblocks = 3
    /\ arg.rng1[1] = arg.rng2[1] /\ arg.rng1[2] = arg.rng2[2] /\ arg.rng1[3] # arg.rng2[3]
    /\ ret.first.out # ret.second.out
    /\ ret.dec1 = ret.dec2

\* a * b mod n by doubling, for n below 2^30.
RECURSIVE TimesMod(_, _, _)
TimesMod(a, b, n) ==
    IF b = 0 THEN 0
    ELSE LET h == TimesMod(a, b \div 2, n)
         IN  (((h + h) % n) + (IF b % 2 = 1 THEN a % n ELSE 0)) % n

\* C15: the pair generate_keypair returns has n = p * q in both keys for
\* the primes of its last pass, p # q, phi = (p-1)(q-1) no multiple of e,
\* e * d = 1 modulo phi and 0 <= d < phi; every candidate of an earlier
\* pass had p = q or phi a multiple of e, and no such candidate is returned.
KeyValidity ==
    /\ \A i \in 1 .. Len(arg.retried) :
         LET p == arg.retried[i][1]
             q == arg.retried[i][2]
         IN  p = q \/ ((p - 1) * (q - 1)) % arg.e = 0
    /\ fn = "returned" =>
         LET phi == (arg.p - 1) * (arg.q - 1)
         IN  /\ ret.ok
             /\ ret.val.pub.n = arg.p * arg.q /\ ret.val.priv.n = arg.p * arg.q
             /\ ret.val.pub.e = arg.e
             /\ arg.p # arg.q
             /\ phi % arg.e # 0
             /\ ret.val.priv.d >= 0 /\ ret.val.priv.d < phi
             /\ TimesMod(arg.e, ret.val.priv.d, phi) = 1

\* A pair was returned after a pass with p = q and a pass with phi a
\* multiple of e.
KeyValidityWitness ==
    /\ fn = "returned" /\ ret.ok /\ Len(arg.retried) = 2
    /\ arg.retried[1][1] = arg.retried[1][2]
    /\ arg.retried[2][1] # arg.retried[2][2]

Abs(x) == IF x < 0 THEN 0 - x ELSE x

\* The greatest common divisor, from its definition (0 for 0 and 0).
Gcd(a, b) ==
    IF a = 0 /\ b = 0 THEN 0
    ELSE CHOOSE d \in 1 .. (Abs(a) + Abs(b)) :
           /\ Abs(a) % d = 0 /\ Abs(b) % d = 0
           /\ \A c \in 1 .. (Abs(a) + Abs(b)) :
                (Abs(a) % c = 0 /\ Abs(b) % c = 0) => c <= d

\* C16: for a positive m, modinv(a, m) raises when gcd(a, m) # 1 and
\* otherwise returns x with 0 <= x < m and a * x = 1 modulo m.
ModinvContract ==
    fn = "modinv returned" =>
      IF Gcd(arg.a, arg.b) # 1 THEN ~ret.ok
      ELSE /\ ret.ok
           /\ ret.val >= 0 /\ ret.val < arg.b
           /\ (arg.a * ret.val) % arg.b = 1 % arg.b

\* The inverse of a negative a came back within 0 .. m - 1.
ModinvContractWitness ==
    /\ fn = "modinv returned" /\ ret.ok
    /\ arg.a < 0 /\ arg.b > 2 /\ ret.val > 1
    /\ egcd(arg.a, arg.b)[2] # ret.val

\* C17: for non-negative a and b, egcd(a, b) returns (g, x, y) with g the
\* greatest common divisor and a * x + b * y = g, and (a, 1, 0) for b = 0.
EgcdContract ==
    fn = "egcd returned" =>
      /\ ret[1] = Gcd(arg.a, arg.b)
      /\ arg.a * ret[2] + arg.b * ret[3] = ret[1]
      /\ arg.b = 0 => ret = <<arg.a, 1, 0>>

\* A call that recursed more than once, with both coefficients non-zero.
EgcdContractWitness ==
    /\ fn = "egcd returned"
    /\ arg.a > arg.b /\ arg.b > 1 /\ arg.a % arg.b > 1
    /\ ret[1] = 1 /\ ret[2] # 0 /\ ret[3] # 0

\* C18: unpack_pickle_bin of what pack_pickle_bin returned gives the
\* header and the payload back (the empty payload too), and the packet is
\* [len(header_bytes):4][header_bytes][len(payload):4][payload].
BinRoundTrip ==
    /\ (fn = "packed" /\ arg.damage = "none") =>
         LET hb == dumps(arg.header).val
         IN  arg.packet = to_bytes(Len(hb), 4) \o hb
                          \o to_bytes(Len(arg.bin), 4) \o arg.bin
    /\ (fn = "returned" /\ arg.damage = "none" /\ arg.packet # <<>>) =>
         ret = [ok |-> TRUE, header |-> arg.header, bin |-> arg.bin]

BinRoundTripWitness ==
    /\ fn = "returned" /\ arg.damage = "none" /\ ret.ok
    /\ arg.header = "reply" /\ Len(arg.bin) = MaxBin /\ ret.bin = arg.bin

\* A declared length of the packet exceeds the bytes that follow it.
HeaderOverrun(packet) ==
    Len(packet) >= 4 /\ from_bytes(SubSeq(packet, 1, 4)) > Len(packet) - 4

PayloadOverrun(packet) ==
    /\ Len(packet) >= 4
    /\ LET off == 4 + from_bytes(SubSeq(packet, 1, 4))
       IN  /\ Len(packet) >= off + 4
           /\ from_bytes(SubSeq(packet, off + 1, off + 4)) > Len(packet) - off - 4

\* C19: unpack_pickle_bin raises, returning no (header, payload), whenever
\* the declared header length or the declared payload length exceeds the
\* bytes left in the packet.
UnpackRejectsOverrun ==
    (fn = "returned" /\ arg.packet # <<>>
       /\ (HeaderOverrun(arg.packet) \/ PayloadOverrun(arg.packet)))
      => ~ret.ok

\* C20: _unpack_multi_files(_pack_multi_files(buffers)) returns the same
\* buffers in the same order, empty buffers and the empty sequence
\* included; zero buffers pack to exactly 4 bytes.
MultiRoundTrip ==
    /\ (fn # "_pack_multi_files" /\ arg.damage = "none" /\ arg.blobs = <<>>) =>
         Len(arg.packed) = 4
    /\ (fn = "returned" /\ arg.damage = "none") =>
         ret = [ok |-> TRUE, out |-> arg.blobs]

MultiRoundTripWitness ==
    /\ fn = "returned" /\ arg.damage = "none" /\ ret.ok
    /\ Len(arg.blobs) = MaxFiles /\ ret.out = arg.blobs
    /\ arg.blobs[1] = <<>> /\ Len(arg.blobs[2]) = MaxFileLen /\ Len(arg.blobs[3]) = 1

\* The blob is a proper prefix of what _pack_multi_files made of blobs.
CutShort(blob, blobs) ==
    LET whole == _pack_multi_files(blobs)
    IN  Len(blob) < Len(whole) /\ blob = SubSeq(whole, 1, Len(blob))

\* The blob holds the entries of blobs and declares more of them.
Overcounted(blob, blobs) ==
    /\ Len(blob) >= 4
    /\ from_bytes(SubSeq(blob, 1, 4)) > Len(blobs)
    /\ SubSeq(blob, 5, Len(blob)) = PackLoop(blobs)

\* C21: _unpack_multi_files raises the format error, returning no list,
\* on a blob shorter than 4 bytes, on a blob whose last entry has its length
\* field or its bytes cut short, and on a blob with fewer entries than the
\* count it declares.
MultiRejectsTruncation ==
    (fn = "returned"
       /\ (CutShort(arg.packed, arg.blobs) \/ Overcounted(arg.packed, arg.blobs)))
      => ret = Err("bad files blob")

MultiRejectsTruncationWitness ==
    /\ fn = "returned" /\ ret = Err("bad files blob")
    /\ Len(arg.blobs) = MaxFiles /\ Len(arg.blobs[MaxFiles]) = MaxFileLen
    /\ CutShort(arg.packed, arg.blobs)
    /\ Len(arg.packed) = Len(_pack_multi_files(arg.blobs)) - 1

\* The connections a listener has accepted and not closed: the one it
\* accepted last, while its socket is open.
InProgress(l) == IF conn[l].open THEN {conn[l].id} ELSE {}

SerialInv ==
    \A l \in Listeners :
      /\ Cardinality(InProgress(l)) <= 1
      /\ conn[l].open => (conn[l].id = nconn[l] /\ spc[l] \in {"recv_hello", "recv_req"})
      /\ spc[l] = "accept" => InProgress(l) = {}

SerialStep ==
    \A l \in Listeners :
      nconn'[l] # nconn[l] =>
        /\ spc[l] = "accept" /\ InProgress(l) = {}
        /\ nconn'[l] = nconn[l] + 1
        /\ InProgress(l)' = {nconn'[l]}
        /\ \A o \in Listeners \ {l} : conn'[o] = conn[o] /\ spc'[o] = spc[o]

\* C22: a listener handles at most one accepted connection at a time and
\* accepts the next one only when the one before is closed, its hello,
\* request and reply steps over; an accept of one listener leaves the
\* connection of the other as it is, so both may have one in progress.
ListenerSerialization == []SerialInv /\ [][SerialStep]_vars

\* Both listeners have a connection in progress, the main one its second.
ListenerSerializationWitness ==
    /\ InProgress("main") = {2} /\ InProgress("upload") = {1}
    /\ spc["main"] = "recv_req" /\ spc["upload"] = "recv_hello"

\* The hello_ack frames the accepting side wrote on a connection.
AckFrames(c) ==
    {i \in 1 .. Len(c.frames) :
       c.frames[i].from = "s" /\ c.frames[i].body.type = "hello_ack"}

CryptoInv ==
    /\ CRYPTO.pub.n = CRYPTO.priv.n
    /\ CRYPTO.mode \in Modes
    /\ \A who \in {"same_mode", "other_mode", "small_key"} :
         ClientCtx(who).pub.n = ClientCtx(who).priv.n
    /\ \A l \in Listeners :
         LET c == conn[l]
         IN  \A i \in 1 .. Len(c.frames) :
               LET f == c.frames[i]
               IN  /\ i \in AckFrames(c) => f.body.pub = Some(pub_to_json(CRYPTO.pub))
                   /\ (f.from = "s" /\ f.enc) => f.mode = CRYPTO.mode
                   /\ (f.from = "c" /\ c.peer.kind = "client") =>
                        /\ f.body.type = "hello" =>
                             f.body.pub = Some(pub_to_json(ClientCtx(c.peer.who).pub))
                        /\ f.enc => f.mode = ClientCtx(c.peer.who).mode

\* C23: no step of a listener or of a client changes CRYPTO; pub.n = priv.n
\* in every state; every connection is answered with the same public key
\* and the same mode, and every client sends the key and uses the mode of
\* its own context.
CryptoReadOnly == []CryptoInv /\ [][CRYPTO' = CRYPTO]_vars

\* Both listeners have acknowledged a hello, the main one on its second
\* connection, and the main one has sent an encrypted reply.
CryptoReadOnlyWitness ==
    /\ conn["main"].id = 2 /\ AckFrames(conn["main"]) # {}
    /\ AckFrames(conn["upload"]) # {}
    /\ \E i \in 1 .. Len(conn["main"].frames) :
         conn["main"].frames[i].from = "s" /\ conn["main"].frames[i].enc

\* C24: with k the byte width of the modulus n, every plaintext block
\* encrypt_bytes builds has k - 1 bytes and a value m with 0 <= m < n, for
\* every data, mode and nonce, and encrypt_bytes never fails with
\* "m out of range".
PlainBlockBound ==
    LET n == ckey.pub.n
        k == _mod_bytes(n)
    IN  /\ cpc \in {"encrypted", "decrypted"} =>
             \A j \in 1 .. Len(cenc.plains) :
               /\ Len(cenc.plains[j]) = k - 1
               /\ from_bytes(cenc.plains[j]) >= 0
               /\ from_bytes(cenc.plains[j]) < n
        /\ cpc = "failed" => cenc.err # "m out of range"
        /\ cpc # "off" => Pow(ByteBase, k - 1) <= n

\* Two blocks were built from bytes of the greatest value under the
\* greatest nonces.
PlainBlockBoundWitness ==
    /\ cpc = "encrypted" /\ cmode = "rand_fixed"
    /\ Len(cdata) = MaxLen /\ \A i \in 1 .. Len(cdata) : cdata[i] = ByteBase - 1
    /\ Len(cenc.plains) = 2
    /\ \A j \in 1 .. 2 : cenc.plains[j][3] = ByteBase - 1

\* A connection is accepted and not closed.
Handling(l) == conn[l].open

\* A blocked read of the accepting side ends only when a frame of the peer
\* is there to read or the peer has closed.
ReadRelease ==
    \A l \in Listeners :
      (spc[l] \in {"recv_hello", "recv_req"} /\ spc'[l] # spc[l]) =>
        \/ conn[l].peerClosed
        \/ conn[l].srvRead < Len(SelectSeq(conn[l].frames, LAMBDA f : f.from = "c"))

\* Every accepted connection is closed in the end, and the listener is
\* back at accept.
EveryConnCloses ==
    \A l \in Listeners :
      /\ Handling(l) ~> ~Handling(l)
      /\ (spc[l] \notin {"accept", "off"}) ~> (spc[l] = "accept")

\* The peer of a listener blocked in sendall reads or closes.
PeerReadsOrCloses ==
    \A l \in Listeners :
      (spc[l] = "sendall" /\ ~conn[l].peerClosed)
        ~> (spc[l] # "sendall" \/ conn[l].peerClosed)

\* C25 as stated: with fair scheduling and a peer that delivers what the
\* accepting side reads or closes, every accepted connection reaches
\* Closed and the listener returns to accept; a blocked read ends only on
\* peer data or peer close.
ListenerProgress == EveryConnCloses /\ [][ReadRelease]_vars

\* C25 as amended: the same, for a peer that also reads what the
\* accepting side writes, or closes.
ListenerProgressIfPeerReads ==
    (PeerReadsOrCloses => EveryConnCloses) /\ [][ReadRelease]_vars

\* The main listener is back at accept after its second connection: it
\* was blocked in the sendall of the reply until the peer closed.
ListenerProgressWitness ==
    /\ spc["main"] = "accept" /\ conn["main"].id = 2 /\ ~conn["main"].open
    /\ conn["main"].served = 1 /\ conn["main"].peerClosed
    /\ conn["main"].excs =
         <<[err |-> "ConnectionResetError", keyKnown |-> TRUE, how |-> "none"]>>

\* The layout a SocketClient method decodes its reply as: file_get calls
\* recv_encrypted_bin, the others recv_encrypted.
DecodedAs(op) == IF op = "file_get" THEN "bin" ELSE "obj"

\* C26: for every operation of SocketClient and every outcome on the
\* server, error outcomes included, the encrypted reply the client has
\* read is in the layout the client decodes it as, so that the client can
\* decode it (and raise the error message of a failed file_get).
ReplyFormatAgreement ==
    \A l \in Listeners :
      LET c == conn[l]
      IN  (c.peer.kind = "client" /\ c.peer.who = "same_mode" /\ c.cliRead = 2) =>
            \A i \in 1 .. Len(c.frames) :
              (c.frames[i].from = "s" /\ c.frames[i].enc) =>
                /\ c.frames[i].fmt = DecodedAs(c.peer.op)
                /\ OpenSealed(c.frames[i], DecodedAs(c.peer.op),
                              ClientCtx(c.peer.who).priv, ClientCtx(c.peer.who).mode).ok

\* C27: while a backup_restore is being executed (MAINTENANCE is true) no
\* other operation on either listener changes the rows or the stored
\* files, and MAINTENANCE is false again once the restore has finished or
\* failed.  The code lets the upload listener write during a restore.
RestoreRunning == hpc["main"] = "restoring"

MaintenanceInv == MAINTENANCE => RestoreRunning

MaintenanceStep ==
    (MAINTENANCE /\ (db' # db \/ files' # files))
        => (RestoreRunning /\ hpc'["main"] # "restoring")

MaintenanceLock == []MaintenanceInv /\ [][MaintenanceStep]_vars

\* C28: a request other than ping and login whose token verify_token does
\* not accept is answered {ok: false, error} with verify_token's message
\* before anything is carried out: its handling changes neither the rows,
\* the stored files, the audit log nor MAINTENANCE.
TokenRefused(l) ==
    /\ hreq[l] # NoReq
    /\ hreq[l].type \notin OpenTypes
    /\ hreq[l].token \notin {"user", "admin"}

TokenGateInv ==
    \A l \in Listeners :
        TokenRefused(l) =>
            /\ hpc[l] \in {"handle", "idle"}
            /\ hpc[l] = "idle" =>
                 /\ hresp[l].ok = FALSE
                 /\ hresp[l].error \in {"token required", "invalid token",
                                        "token expired"}

TokenGateStep ==
    \A l \in Listeners :
        (TokenRefused(l) /\ hpc[l] = "handle" /\ hpc'[l] # "handle")
            => UNCHANGED <<MAINTENANCE, db, files, audit>>

TokenGate == []TokenGateInv /\ [][TokenGateStep]_vars

TokenGateWitness ==
    /\ hpc = [l \in Listeners |-> "idle"]
    /\ hreq["main"] = Req("insert", "", <<>>)
    /\ hresp["main"] = Resp(FALSE, "token required")
    /\ hreq["upload"] = Req("insert_with_files", "expired", <<"fs", "fs">>)
    /\ hresp["upload"] = Resp(FALSE, "token expired")
    /\ db = {} /\ files = {} /\ audit = 0

\* C29: the files written while an insert_with_files request is prepared
\* are deleted if and only if the row insert failed: a row that was
\* inserted keeps every path it stores, whatever fails later, and when
\* the insert failed no file created for the request remains.  The code
\* unlinks the files of an inserted row when audit_log or the reply fails.
InsertWithFiles == hreq["upload"].type = "insert_with_files"

RowInserted == Row(hloc["upload"].row, hloc["upload"].created) \in db

StoredFilesInv ==
    InsertWithFiles =>
        /\ RowInserted => hloc["upload"].created \subseteq files
        /\ (hpc["upload"] = "idle" /\ hloc["upload"].row = 0)
             => hloc["upload"].created \cap files = {}

StoredFilesStep ==
    (/\ InsertWithFiles
     /\ hpc'["upload"] # hpc["upload"]
     /\ \E q \in hloc["upload"].created : q \in files /\ q \notin files')
        => hloc["upload"].row = 0

StoredFilesAtomic == []StoredFilesInv /\ [][StoredFilesStep]_vars

\* C30: is_probable_prime never calls a prime composite, and answers
\* before any base is drawn where the list of small primes decides: false
\* for n < 2, true for a listed prime, false for any other multiple of a
\* listed prime, true for every prime whatever bases are drawn; every base
\* drawn lies in [2, n - 2].
IsPrime(n) == n >= 2 /\ \A q \in 2 .. (n - 1) : n % q # 0

Listed == {small_primes[i] : i \in 1 .. Len(small_primes)}

PrimeReturned == fn = "is_probable_prime returned"

PrimeVerdicts ==
    /\ fn \in {"is_probable_prime", "is_probable_prime returned"}
    /\ arg.i > 0 => (2 <= arg.a /\ arg.a <= arg.n - 2)
    /\ IsPrime(arg.n) => ret # <<FALSE>>
    /\ PrimeReturned =>
         /\ arg.n < 2 => (ret = <<FALSE>> /\ arg.i = 0)
         /\ arg.n \in Listed => (ret = <<TRUE>> /\ arg.i = 0)
         /\ (arg.n >= 2 /\ arg.n \notin Listed /\ \E q \in Listed : arg.n % q = 0)
              => (ret = <<FALSE>> /\ arg.i = 0)
         /\ IsPrime(arg.n) => ret = <<TRUE>>

PrimeVerdictsWitness ==
    /\ PrimeReturned
    /\ arg.n = 41 /\ arg.i = arg.k /\ arg.a = 3
    /\ ret = <<TRUE>>

====
